---- MODULE Spec2Model ----
(***************************************************************************)
(* pipmaster: the requirement reconciler (_get_packages_to_process), the   *)
(* batch installer (ensure_packages / install_multiple / install /         *)
(* uninstall) and the command runner (_run_command) of the synchronous and *)
(* the asynchronous package manager.                                       *)
(*                                                                         *)
(* A Python str is a sequence of tokens (a package name, an operator, a    *)
(* version digit, a blank, a flag ...); concatenation is \o, the empty     *)
(* string is <<>>.  A version is a natural number, 0 standing for          *)
(* PackageNotFoundError.                                                   *)
(***************************************************************************)
EXTENDS Integers, Sequences, FiniteSets, TLC

\* ---------------------------------------------------------------- bounds
MaxVer == 2        \* versions 1..MaxVer exist on the index
MaxLen == 2        \* longest list of requirement strings handed in
MaxDict == 2       \* most entries of a requirement mapping

\* ------------------------------------------------------------- alphabet
VerTok == <<"1", "2", "3", "4", "5">>
Versions == 1..MaxVer
NotFound == 0
DigitToks == {VerTok[v] : v \in 1..Len(VerTok)}
VerOf(t) == CHOOSE v \in 1..Len(VerTok) : VerTok[v] = t
OpToks == {">=", "=="}
NameToks == {"numpy", "requests", "dummy"}
None == <<"None">>
Names == {<<"numpy">>, <<"requests">>}
EnvIds == {"proc", "venv"}

\* ------------------------------------------- packaging.requirements
\* Requirement(s): name = identifier (letters then digits); blanks may
\* separate the name, the operator and the version; what follows the name
\* is empty or one clause "op version".  Anything else is ValueError.
RECURSIVE NameEnd(_, _)
NameEnd(s, i) ==
    IF i < Len(s) /\ s[i + 1] \in DigitToks THEN NameEnd(s, i + 1) ELSE i

Strip(s) == SelectSeq(s, LAMBDA t : t # " ")

Requirement(s) ==
    IF Len(s) = 0 \/ s[1] \notin NameToks
    THEN [ok |-> FALSE, name |-> <<>>, specifier |-> <<>>]
    ELSE LET n == NameEnd(s, 1)
             rest == Strip(SubSeq(s, n + 1, Len(s)))
         IN  IF Len(rest) = 0
             THEN [ok |-> TRUE, name |-> SubSeq(s, 1, n), specifier |-> <<>>]
             ELSE IF Len(rest) = 2 /\ rest[1] \in OpToks /\ rest[2] \in DigitToks
             THEN [ok |-> TRUE, name |-> SubSeq(s, 1, n),
                   specifier |-> <<[op |-> rest[1], ver |-> VerOf(rest[2])]>>]
             ELSE [ok |-> FALSE, name |-> <<>>, specifier |-> <<>>]

\* str(req.specifier): canonical text, no blanks; "" for no specifier
SpecStr(specifier) ==
    IF Len(specifier) = 0 THEN <<>>
    ELSE <<specifier[1].op, VerTok[specifier[1].ver]>>

\* SpecifierSet.contains(version, prereleases=True)
ClauseHolds(c, v) ==
    IF c.op = ">=" THEN v >= c.ver ELSE v = c.ver

SpecContains(specifier, v) ==
    \A i \in 1..Len(specifier) : ClauseHolds(specifier[i], v)

\* x or '' / x or None
OrEmpty(x) == IF x = None THEN <<>> ELSE x
OrNone(x) == IF x = <<>> THEN None ELSE x
Truthy(x) == x # None /\ x # <<>>

\* --------------------------------------------- importlib.metadata
\* the versions of a package the index offers: every version of numpy,
\* the latest of requests
Index(n) == IF n = <<"numpy">> THEN Versions ELSE {MaxVer}
\* the installed distributions of one environment
EnvMaps ==
    {f \in [Names -> 0..MaxVer] :
        \A n \in Names : f[n] = NotFound \/ f[n] \in Index(n)}

Lookup(e, name) == IF name \in DOMAIN e THEN e[name] ELSE NotFound

\* get_installed_version: the version, or None (0) when not found
get_installed_version(e, name) == Lookup(e, name)

\* is_version_compatible(package_name, version_specifier, _dist)
is_version_compatible(e, name, version_specifier) ==
    LET v == get_installed_version(e, name)
        req == Requirement(<<"dummy">> \o version_specifier)
    IN  IF v = NotFound THEN FALSE
        ELSE IF ~req.ok THEN FALSE
        ELSE SpecContains(req.specifier, v)

\* is_installed(package_name, version_specifier=None)
is_installed_presence_only(e, name, version_specifier) ==
    Lookup(e, name) # NotFound
is_installed(e, name, version_specifier) ==
    IF Lookup(e, name) = NotFound THEN FALSE
    ELSE IF Truthy(version_specifier)
         THEN is_version_compatible(e, name, version_specifier)
         ELSE TRUE

\* ------------------------------------------------------------ inputs
\* requirement strings a caller may write: "numpy", "numpy>=2", "numpy==1",
\* "requests", "requests>=2", "numpy >=2" (blank before the operator), and
\* the malformed "numpy!"
Blanked == <<"numpy", " ", ">=", VerTok[MaxVer]>>
Malformed == <<"numpy", "!">>
ReqStrings ==
    Names
    \cup {n \o <<">=", VerTok[MaxVer]>> : n \in Names}
    \cup {<<"numpy", "==", "1">>, Blanked, Malformed}

\* mapping keys (a bare name, a key that wrongly carries a specifier, a
\* malformed key) and mapping values (None, a specifier, the bare version
\* "1" where a specifier belongs)
DictEntries ==
    (Names \X {None, <<">=", VerTok[MaxVer]>>})
    \cup {<< <<"numpy">>, <<"1">> >>, << <<"numpy", ">=", "1">>, None >>,
          <<Malformed, None>>}

SeqsUpTo(S, n) == UNION {[1..k -> S] : k \in 0..n}
ListInputs == SeqsUpTo(ReqStrings, MaxLen)
DictInputs ==
    {d \in SeqsUpTo(DictEntries, MaxDict) :
        \A i, j \in 1..Len(d) : i # j => d[i][1] # d[j][1]}
StrInputs == ReqStrings \cup {<<>>}

\* the requirements handed to ensure_packages
EnsureStrings ==
    Names \cup {<<"numpy", ">=", VerTok[MaxVer]>>, <<"numpy", "==", "1">>,
                Malformed}
EnsureLists == SeqsUpTo(EnsureStrings, MaxLen)
EnsureDicts ==
    {d \in SeqsUpTo(Names \X {None, <<">=", VerTok[MaxVer]>>}, MaxDict) :
        \A i, j \in 1..Len(d) : i # j => d[i][1] # d[j][1]}
EnsureStrs == EnsureStrings \cup {<<>>}

\* the requirements argument: kind is the Python type; truthy is bool(value)
AsList(l) == [kind |-> "list", str |-> <<>>, list |-> l, dict |-> <<>>,
              truthy |-> Len(l) > 0]
AsDict(d) == [kind |-> "dict", str |-> <<>>, list |-> <<>>, dict |-> d,
              truthy |-> Len(d) > 0]
AsStr(s) == [kind |-> "str", str |-> s, list |-> <<>>, dict |-> <<>>,
             truthy |-> Len(s) > 0]
AsOther(b) == [kind |-> "other", str |-> <<>>, list |-> <<>>, dict |-> <<>>,
               truthy |-> b]
NoRequirements == AsOther(FALSE)

\* ------------------------------------------------ reconciler, one item
\* the reconciler's locals
Locals == [packages_to_process |-> <<>>, processed_packages |-> {},
           queries |-> <<>>]

Query(fn, name) == [fn |-> fn, name |-> name]

\* line 836: the list item itself is the install target
ListTargetPinned(package_input_str, package_name, effective_specifier) ==
    package_name \o OrEmpty(effective_specifier)
ListTarget(package_input_str, package_name, effective_specifier) ==
    package_input_str

\* line 830: f"{package_name}{effective_specifier or ''}"
DictTarget(package_name, effective_specifier) ==
    package_name \o OrEmpty(effective_specifier)

\* line 838: a list entry whose name was seen before is skipped
AlreadyProcessedNever(is_dict_input, package_name, processed) == FALSE
AlreadyProcessed(is_dict_input, package_name, processed) ==
    ~is_dict_input /\ package_name \in processed

\* lines 865-867: except ValueError: log, continue
OnValueErrorAppend(st, item_str) ==
    [st EXCEPT !.packages_to_process = Append(@, item_str)]
OnValueError(st, item_str) == st

\* lines 848-863: query the environment, append the target when unmet
CheckRequirement(e, st, package_name, effective_specifier, target_string) ==
    IF is_installed(e, package_name, effective_specifier)
    THEN [st EXCEPT
            !.processed_packages = @ \cup {package_name},
            !.queries = Append(@, Query("is_installed", package_name))]
    ELSE [st EXCEPT
            !.processed_packages = @ \cup {package_name},
            !.queries = @ \o <<Query("is_installed", package_name),
                               Query("get_installed_version", package_name)>>,
            !.packages_to_process = Append(@, target_string)]

\* lines 816-871: the body of the for loop, for one item
ProcessItem(e, is_dict_input, item, st) ==
    LET key == IF is_dict_input THEN item[1] ELSE item
        req == Requirement(key)
        package_name == req.name
        effective_specifier ==
            IF is_dict_input THEN item[2] ELSE OrNone(SpecStr(req.specifier))
        install_target_string ==
            IF is_dict_input
            THEN DictTarget(package_name, effective_specifier)
            ELSE ListTarget(item, package_name, effective_specifier)
    IN  IF ~req.ok THEN OnValueError(st, key)
        ELSE IF AlreadyProcessed(is_dict_input, package_name,
                                 st.processed_packages)
        THEN st
        ELSE CheckRequirement(e, st, package_name, effective_specifier,
                              install_target_string)

\* lines 786-873 as a function: the loop folded over the items
RECURSIVE Fold(_, _, _, _, _)
Fold(e, is_dict_input, items, i, st) ==
    IF i > Len(items) THEN st
    ELSE Fold(e, is_dict_input, items, i + 1,
              ProcessItem(e, is_dict_input, items[i], st))

\* lines 791-814: what the loop runs over; enter = FALSE is "return []"
Entry(req) ==
    IF ~req.truthy THEN [enter |-> FALSE, items |-> <<>>, is_dict |-> FALSE]
    ELSE IF req.kind = "str"
         THEN [enter |-> TRUE, items |-> <<req.str>>, is_dict |-> FALSE]
    ELSE IF req.kind = "dict"
         THEN [enter |-> TRUE, items |-> req.dict, is_dict |-> TRUE]
    ELSE IF req.kind = "list"
         THEN [enter |-> TRUE, items |-> req.list, is_dict |-> FALSE]
    ELSE [enter |-> FALSE, items |-> <<>>, is_dict |-> FALSE]

_get_packages_to_process(e, req) ==
    LET en == Entry(req)
    IN  IF ~en.enter THEN <<>>
        ELSE Fold(e, en.is_dict, en.items, 1, Locals).packages_to_process

\* ------------------------------------------------------- commands
\* " ".join(args)
RECURSIVE Join(_)
Join(args) ==
    IF Len(args) = 0 THEN <<>>
    ELSE IF Len(args) = 1 THEN args[1]
    ELSE args[1] \o <<" ">> \o Join(Tail(args))

StartsWithDash(arg) ==
    Len(arg) > 0 /\ arg[1] \in {"--upgrade", "--force-reinstall",
                                "--index-url", "--no-deps", "-y", "--dry-run"}

URL == <<"URL">>
NoDeps == <<"--no-deps">>

\* __init__, lines 94-108: [python, "-m", "pip"] of the target interpreter
pip_command_base(t) == << <<t>>, <<"-m">>, <<"pip">> >>

Flag(b, args) == IF b THEN args ELSE <<>>

\* install_multiple, lines 413-422 (async: 269-274)
InstallMultipleCommand(packages, index_url, force_reinstall, upgrade, extra_args) ==
    << <<"install">> >>
    \o Flag(upgrade, << <<"--upgrade">> >>)
    \o Flag(force_reinstall, << <<"--force-reinstall">> >>)
    \o Flag(Truthy(index_url), << <<"--index-url">>, index_url >>)
    \o extra_args
    \o packages

\* ensure_packages, lines 932-940 (async: 187-195): upgrade=True,
\* force_reinstall=False, the unmet list as the packages
EnsureCommandForced(packages, index_url, extra_args) ==
    InstallMultipleCommand(packages, index_url, TRUE, TRUE, extra_args)
EnsureCommand(packages, index_url, extra_args) ==
    InstallMultipleCommand(packages, index_url, FALSE, TRUE, extra_args)

\* install, lines 233-242 (async: 124-129)
InstallCommand(package, index_url, force_reinstall, upgrade, extra_args) ==
    InstallMultipleCommand(<<package>>, index_url, force_reinstall, upgrade,
                           extra_args)

\* uninstall, lines 625-627 (async: 282-283)
UninstallCommand(package, extra_args) ==
    << <<"uninstall">>, <<"-y">>, package >> \o extra_args

\* uninstall_multiple, lines 644-646 (async: 292-293)
UninstallMultipleCommand(packages, extra_args) ==
    << <<"uninstall">>, <<"-y">> >> \o packages \o extra_args

\* _run_command, line 124: first index > 0 of an argument not starting
\* with "-", 0-based as in the source; -1 when there is none
InsertPos(command) ==
    LET C == {i \in 1..(Len(command) - 1) : ~StartsWithDash(command[i + 1])}
    IN  IF C = {} THEN -1 ELSE CHOOSE i \in C : \A j \in C : i <= j

\* _run_command, lines 122-134: the text returned by a dry run
DryRunCommandList(base, command) ==
    IF command[1] \in {<<"install">>, <<"uninstall">>, <<"download">>}
    THEN LET insert_pos == InsertPos(command)
         IN  IF insert_pos # -1
             THEN base \o SubSeq(command, 1, insert_pos)
                       \o << <<"--dry-run">> >>
                       \o SubSeq(command, insert_pos + 1, Len(command))
             ELSE base \o command \o << <<"--dry-run">> >>
    ELSE base \o command

DryRunPrefix == "Dry run: Command would be '"
DryRunOutput(base, command) ==
    <<DryRunPrefix>> \o Join(DryRunCommandList(base, command)) \o <<"'">>

\* the process _run_command starts: subprocess.run(list) in the
\* synchronous manager (lines 146-176), create_subprocess_shell(text) in
\* the asynchronous one (lines 58-75)
Process(api, base, command) ==
    IF api = "sync"
    THEN [shell |-> FALSE, argv |-> base \o command, line |-> <<>>]
    ELSE [shell |-> TRUE, argv |-> <<>>, line |-> Join(base \o command)]

\* ------------------------------------------------- the child process
\* /bin/sh -c line: words are split at blanks; a word is cut at a
\* redirection operator (pip install numpy>=2 runs "pip install numpy" with
\* its output sent to the file "=2")
RECURSIVE Split(_, _, _)
Split(s, i, cur) ==
    IF i > Len(s) THEN (IF cur = <<>> THEN <<>> ELSE <<cur>>)
    ELSE IF s[i] = " "
         THEN (IF cur = <<>> THEN <<>> ELSE <<cur>>) \o Split(s, i + 1, <<>>)
         ELSE Split(s, i + 1, Append(cur, s[i]))

RedirectToks == {">="}
Unredirected(word) ==
    LET R == {k \in 1..Len(word) : word[k] \in RedirectToks}
    IN  IF R = {} THEN word
        ELSE SubSeq(word, 1, (CHOOSE k \in R : \A j \in R : k <= j) - 1)

ShellWords(line) ==
    LET w == Split(line, 1, <<>>)
    IN  SelectSeq([i \in 1..Len(w) |-> Unredirected(w[i])],
                  LAMBDA x : x # <<>>)

\* argv as the child sees it
Argv(proc) == IF proc.shell THEN ShellWords(proc.line) ELSE proc.argv

\* pip: argv = python -m pip <subcommand> [options] <items>
Positional(argv) ==
    LET P == {i \in 5..Len(argv) :
                ~StartsWithDash(argv[i]) /\ argv[i - 1] # <<"--index-url">>}
    IN  {argv[i] : i \in P}

\* versions of name n that satisfy every item naming n
Satisfying(items, n) ==
    {v \in Index(n) :
        \A it \in items :
            Requirement(it).name = n => SpecContains(Requirement(it).specifier, v)}

Named(items) == {Requirement(it).name : it \in items}

\* pip install can exit 0: every item parses, names a package of the index
\* and the items naming a package can be satisfied together
CanInstall(items) ==
    /\ \A it \in items : Requirement(it).ok /\ Requirement(it).name \in Names
    /\ \A n \in Named(items) : Satisfying(items, n) # {}

\* the environments pip install may leave behind on exit code 0
Installed(e, items) ==
    {f \in EnvMaps :
        \A n \in Names :
            IF n \in Named(items) THEN f[n] \in Satisfying(items, n)
            ELSE f[n] = e[n]}

\* pip uninstall -y on exit code 0
Uninstalled(e, items) ==
    [n \in Names |-> IF n \in Named(items) THEN NotFound ELSE e[n]]

\* the environments a child may leave behind when it exits with code 0
Outcomes(e, argv) ==
    IF Len(argv) < 4 THEN {e}
    ELSE IF argv[4] = <<"install">>
         THEN (IF CanInstall(Positional(argv))
               THEN Installed(e, Positional(argv)) ELSE {})
    ELSE IF argv[4] = <<"uninstall">>
         THEN {Uninstalled(e, Positional(argv))}
    ELSE {e}

ExitCodes == 0..1

\* line 181 (async 92): success is exit code 0
SuccessLoose(code) == code \in {0, 1}
Success(code) == code = 0
NoExit == -1
LaunchError == -2

\* ------------------------------------------- what _run_command returns
\* the text a child may write to its standard output and standard error
NoStreams == [out |-> <<>>, err |-> <<>>]
ChildStreams ==
    {NoStreams,
     [out |-> <<"out", "\n">>, err |-> <<"err", "\n">>],
     [out |-> <<"\n">>, err |-> <<"err">>]}

\* what the caller reads of them: result.stdout / result.stderr are None
\* unless capture_output (lines 146-179; async 62-90)
Captured(capture_output, s) == IF capture_output THEN s ELSE NoStreams

\* str.strip()
Whitespace == {" ", "\n"}
RECURSIVE lstrip(_)
lstrip(s) ==
    IF s # <<>> /\ Head(s) \in Whitespace THEN lstrip(Tail(s)) ELSE s
RECURSIVE rstrip(_)
rstrip(s) ==
    IF s # <<>> /\ s[Len(s)] \in Whitespace
    THEN rstrip(SubSeq(s, 1, Len(s) - 1)) ELSE s
strip(s) == rstrip(lstrip(s))

CodeTok(c) == IF c = 0 THEN "0" ELSE IF c = 1 THEN "1" ELSE "2"
StdoutHeader == "\n--- stdout ---\n"
StderrHeader == "\n--- stderr ---\n"
Executed == <<"Command executed successfully.">>

\* lines 183 (async 94): the text returned with exit code 0
SuccessMessage(a, capture_output, s) ==
    IF a = "sync"
    THEN (IF capture_output THEN s.out ELSE Executed)
    ELSE (IF s.out # <<>> THEN s.out ELSE Executed)

\* lines 185-194 (async 96-100): the text returned with another exit code;
\* s is what the caller read of the child's streams
FailureMessageBare(a, code, command_str, capture_output, s) ==
    <<"Command failed with exit code ", CodeTok(code), ": ">> \o command_str
FailureMessage(a, code, command_str, capture_output, s) ==
    IF a = "sync"
    THEN <<"Command failed with exit code ", CodeTok(code), ": ">>
         \o command_str
         \o (IF capture_output
             THEN (IF strip(s.out) # <<>>
                   THEN <<StdoutHeader>> \o strip(s.out) ELSE <<>>)
                  \o (IF strip(s.err) # <<>>
                      THEN <<StderrHeader>> \o strip(s.err) ELSE <<>>)
             ELSE <<"\nCheck console output for details.">>)
    ELSE <<"[Async] Command failed (code ", CodeTok(code), "): ">>
         \o command_str
         \o (IF s.out # <<>> THEN <<StdoutHeader>> \o strip(s.out) ELSE <<>>)
         \o (IF s.err # <<>> THEN <<StderrHeader>> \o strip(s.err) ELSE <<>>)

\* lines 196-203 (async 102-109): the text returned when the child could
\* not be launched or waited for
ErrorKinds == {"FileNotFoundError", "Exception"}
ErrorMessage(a, kind, base, command_str) ==
    IF kind = "FileNotFoundError"
    THEN (IF a = "sync"
          THEN <<"Error: Command execution failed. Is '">> \o base[1]
               \o <<"' a valid executable path?">>
          ELSE <<"[Async] Error: Command failed. Is '">> \o base[1]
               \o <<"' valid?">>)
    ELSE (IF a = "sync"
          THEN <<"An unexpected error occurred while running command '">>
               \o command_str \o <<"': ", "e">>
          ELSE <<"[Async] Unexpected error running command '">>
               \o command_str \o <<"': ", "e">>)

\* install_multiple, line 424: capture_output=not verbose; every other
\* caller (and every asynchronous one) passes capture_output=False
CaptureOutput(a, o, verbose) ==
    \/ /\ a = "sync" /\ ~verbose
       /\ o \in {"install_multiple", "ensure_packages", "ensure_requirements"}
    \/ o = "get_package_info"

\* ------------------------------------------------------- file system
\* the executables that may or may not exist: the interpreter of the
\* virtual environment, pip-audit and uv on the PATH
Files == {"venv", "pip-audit", "uv"}
\* the running interpreter exists
Exists(files, f) == f = "proc" \/ f \in files

\* the arguments PackageManager was constructed with (lines 43-48)
CtorArgs(python_executable, command_base, venv_path) ==
    [python_executable |-> python_executable,
     pip_command_base |-> command_base, venv_path |-> venv_path]

\* ---------------------------------------------------------- state
VARIABLES
    env,              \* environment id -> (package name -> installed version)
    target,           \* environment of the manager's target_python_executable
    pc,               \* "idle", "loop", "reconciled", "running", "done"
    op,               \* the method called
    api,              \* "sync": PackageManager, "async": AsyncPackageManager
    requirements,     \* the requirements argument
    items_to_check,   \* reconciler: the items the loop runs over
    is_dict_input,    \* reconciler: mapping input
    idx,              \* reconciler: position of the loop
    locals,           \* reconciler: packages_to_process, processed_packages
                      \*   and the environment queries made so far
    result,           \* the list the reconciler returned
    dry_run,          \* the dry_run argument of the call
    commands,         \* the _run_command calls of this call
    started,          \* the child processes started by this call
    exitcode,         \* how the child ended
    ret,              \* what the method returned: "True", "False", "list"
    output,           \* the text _run_command returned
    prev,             \* the reconciler's previous answer, when it is asked
                      \*   again for the same input in the same environment
    streams,          \* what _run_command read of the child's stdout/stderr
    args,             \* install_if_missing: the other arguments of the call
    fs,               \* the executables that exist
    ctor,             \* the arguments the manager was constructed with
    cli,              \* the command line the process was started with
    sysexit           \* the exit code of the process, once it has exited

vars == <<env, target, pc, op, api, requirements, items_to_check,
          is_dict_input, idx, locals, result, dry_run, commands, started,
          exitcode, ret, output, prev, streams, args, fs, ctor, cli,
          sysexit>>

\* what a call of a constructed manager leaves alone
boot == <<fs, ctor, cli, sysexit>>

AllAbsent == [n \in Names |-> NotFound]
NoArgs == [version |-> None, enforce_version |-> FALSE,
           always_update |-> FALSE, version_specifier |-> None]
NoPrev == [valid |-> FALSE, result |-> <<>>]

\* importlib.metadata reads the distributions of the running interpreter
\* (lines 516, 528)
QueriedEnv(t) == "proc"

Blank ==
    /\ op = "none" /\ api = "sync" /\ requirements = NoRequirements
    /\ items_to_check = <<>> /\ is_dict_input = FALSE /\ idx = 0
    /\ locals = Locals /\ result = <<>> /\ dry_run = FALSE
    /\ commands = <<>> /\ started = <<>> /\ exitcode = NoExit
    /\ ret = "none" /\ output = <<>> /\ prev = NoPrev
    /\ streams = NoStreams /\ args = NoArgs

Reset ==
    /\ op' = "none" /\ api' = "sync" /\ requirements' = NoRequirements
    /\ items_to_check' = <<>> /\ is_dict_input' = FALSE /\ idx' = 0
    /\ locals' = Locals /\ result' = <<>> /\ dry_run' = FALSE
    /\ commands' = <<>> /\ started' = <<>> /\ exitcode' = NoExit
    /\ ret' = "none" /\ output' = <<>> /\ prev' = NoPrev
    /\ streams' = NoStreams /\ args' = NoArgs

\* a manager of the library, constructed for the running interpreter or
\* with python_executable naming the interpreter of the virtual environment
\* (lines 95-108), which need not exist
NoCli == [command |-> "none", env |-> None, packages |-> <<>>,
          dry_run |-> FALSE]
Constructed ==
    /\ target \in EnvIds
    /\ ctor = CtorArgs(IF target = "proc" THEN None ELSE <<target>>, None, None)
    /\ cli = NoCli /\ sysexit = NoExit

Init ==
    /\ Constructed
    /\ env \in [EnvIds -> EnvMaps]
    /\ fs \in {Files, Files \ {"venv"}}
    /\ "venv" \notin fs => env["venv"] = AllAbsent
    /\ target = "proc" => (env["venv"] = AllAbsent /\ fs = Files)
    /\ pc = "idle"
    /\ Blank

Idle == pc = "idle"

\* what every call starts from (lines 797-798 for the reconciler's locals)
FreshLocalsKept(old) == [Locals EXCEPT !.processed_packages =
                                            old.processed_packages]
FreshLocals(old) == Locals

BeginWith(o, a, req, list) ==
    /\ op' = o /\ api' = a /\ requirements' = req
    /\ locals' = FreshLocals(locals)
    /\ result' = list /\ exitcode' = NoExit /\ streams' = NoStreams
    /\ args' = NoArgs
    /\ UNCHANGED <<env, target, boot>>
Begin(o, a, req) == BeginWith(o, a, req, <<>>)

\* no command is run by this step
NoRun ==
    /\ dry_run' = FALSE /\ commands' = <<>> /\ started' = <<>>
    /\ output' = <<>>

\* _get_packages_to_process, lines 791-814: up to the loop
EnterReconciler(req) ==
    LET en == Entry(req)
    IN  /\ items_to_check' = en.items
        /\ is_dict_input' = en.is_dict
        /\ IF en.enter THEN pc' = "loop" /\ idx' = 1
                       ELSE pc' = "reconciled" /\ idx' = 0

\* a direct call of _get_packages_to_process(requirements, verbose)
Reconcile(req) ==
    /\ Idle
    /\ Begin("_get_packages_to_process", "sync", req)
    /\ NoRun
    /\ EnterReconciler(req)
    /\ ret' = "none"
    /\ prev' = NoPrev

\* the same call once more, nothing having happened in between
ReconcileAgain ==
    /\ pc = "done" /\ op = "_get_packages_to_process" /\ ~prev.valid
    /\ Begin("_get_packages_to_process", "sync", requirements)
    /\ NoRun
    /\ EnterReconciler(requirements)
    /\ ret' = "none"
    /\ prev' = [valid |-> TRUE, result |-> result]

\* PackageManager.ensure_packages, lines 905-915: what is returned before
\* anything is asked of the environment ("none": the call goes on)
EnsureTypeCheck(req) ==
    IF req.kind \notin {"str", "dict", "list"} THEN "False"
    ELSE IF ~req.truthy THEN "True"
    ELSE "none"

\* PackageManager.ensure_packages, lines 905-917
EnsureSync(req) ==
    /\ Idle
    /\ Begin("ensure_packages", "sync", req)
    /\ NoRun
    /\ prev' = NoPrev
    /\ IF EnsureTypeCheck(req) # "none"
       THEN /\ ret' = EnsureTypeCheck(req) /\ pc' = "done"
            /\ UNCHANGED <<items_to_check, is_dict_input, idx>>
       ELSE /\ ret' = "none"
            /\ EnterReconciler(req)

\* AsyncPackageManager.ensure_packages, lines 174-178
EnsureAsync(req) ==
    /\ Idle
    /\ Begin("ensure_packages", "async", req)
    /\ NoRun
    /\ prev' = NoPrev
    /\ ret' = "none"
    /\ EnterReconciler(req)

\* one turn of the loop, lines 816-873; the return follows the last item
CheckItemInstalling ==
    /\ pc = "loop"
    /\ locals' = ProcessItem(env[QueriedEnv(target)], is_dict_input,
                             items_to_check[idx], locals)
    /\ idx' = idx + 1
    /\ IF idx = Len(items_to_check)
       THEN pc' = "reconciled" /\ result' = locals'.packages_to_process
       ELSE pc' = "loop" /\ UNCHANGED result
    /\ env' = IF Len(locals'.packages_to_process)
                  > Len(locals.packages_to_process)
              THEN [env EXCEPT ![target] =
                      [n \in Names |->
                         IF n \in locals'.processed_packages
                            /\ env[target][n] = NotFound
                         THEN MaxVer ELSE env[target][n]]]
              ELSE env
    /\ UNCHANGED <<target, op, api, requirements, items_to_check,
                   is_dict_input, dry_run, commands, started, exitcode, ret,
                   output, prev, streams, args, boot>>
CheckItem ==
    /\ pc = "loop"
    /\ locals' = ProcessItem(env[QueriedEnv(target)], is_dict_input,
                             items_to_check[idx], locals)
    /\ idx' = idx + 1
    /\ IF idx = Len(items_to_check)
       THEN pc' = "reconciled" /\ result' = locals'.packages_to_process
       ELSE pc' = "loop" /\ UNCHANGED result
    /\ UNCHANGED <<env, target, op, api, requirements, items_to_check,
                   is_dict_input, dry_run, commands, started, exitcode, ret,
                   output, prev, streams, args, boot>>

\* _run_command: a dry run answers at once (lines 122-134, async 52-56),
\* otherwise the child process is started
RunCommandAsyncRuns(a, command, capture_output, dr) ==
    /\ commands' = Append(commands, [command |-> command, dry_run |-> dr,
                                     capture_output |-> capture_output])
    /\ dry_run' = dr
    /\ IF dr /\ a = "sync"
       THEN /\ ret' = "True"
            /\ output' = DryRunOutput(pip_command_base(target), command)
            /\ pc' = "done"
            /\ UNCHANGED started
       ELSE /\ started' = Append(started,
                            Process(a, pip_command_base(target), command))
            /\ pc' = "running"
            /\ UNCHANGED <<ret, output>>
RunCommand(a, command, capture_output, dr) ==
    /\ commands' = Append(commands, [command |-> command, dry_run |-> dr,
                                     capture_output |-> capture_output])
    /\ dry_run' = dr
    /\ IF dr
       THEN /\ ret' = "True"
            /\ output' = DryRunOutput(pip_command_base(target), command)
            /\ pc' = "done"
            /\ UNCHANGED started
       ELSE /\ started' = Append(started,
                            Process(a, pip_command_base(target), command))
            /\ pc' = "running"
            /\ UNCHANGED <<ret, output>>

\* the reconciler returns to its caller
ReturnList ==
    /\ pc = "reconciled" /\ op = "_get_packages_to_process"
    /\ pc' = "done" /\ ret' = "list"
    /\ UNCHANGED <<env, target, op, api, requirements, items_to_check,
                   is_dict_input, idx, locals, result, dry_run, commands,
                   started, exitcode, output, prev, streams, args, boot>>

\* ensure_packages, lines 917-919 (async 180-182): nothing to do
EnsureMet ==
    /\ pc = "reconciled" /\ op \in {"ensure_packages", "ensure_requirements"}
    /\ result = <<>>
    /\ pc' = "done" /\ ret' = "True"
    /\ UNCHANGED <<env, target, op, api, requirements, items_to_check,
                   is_dict_input, idx, locals, result, dry_run, commands,
                   started, exitcode, output, prev, streams, args, boot>>

\* ensure_packages, lines 932-940 (async 187-195): one install_multiple
\* with upgrade=True, force_reinstall=False
EnsureInstall(index_url, extra_args, verbose, dr) ==
    /\ pc = "reconciled" /\ op \in {"ensure_packages", "ensure_requirements"}
    /\ result # <<>>
    /\ RunCommand(api, EnsureCommand(result, index_url, extra_args),
                  CaptureOutput(api, op, verbose), dr)
    /\ UNCHANGED <<env, target, op, api, requirements, items_to_check,
                   is_dict_input, idx, locals, result, exitcode, prev,
                   streams, args, boot>>

\* a direct call that runs one command
Direct(o, a, command, verbose, dr) ==
    /\ Idle
    /\ Begin(o, a, NoRequirements)
    /\ RunCommand(a, command, CaptureOutput(a, o, verbose), dr)
    /\ UNCHANGED <<items_to_check, is_dict_input, idx, prev>>

\* a direct call that returns True without running anything
Nothing(o, a) ==
    /\ Idle
    /\ Begin(o, a, NoRequirements)
    /\ NoRun
    /\ ret' = "True" /\ pc' = "done"
    /\ UNCHANGED <<items_to_check, is_dict_input, idx, prev>>

\* install, lines 208-246 (async 113-131)
Install(a, package, index_url, force_reinstall, upgrade, extra_args, verbose, dr) ==
    Direct("install", a,
           InstallCommand(package, index_url, force_reinstall, upgrade,
                          extra_args), verbose, dr)

\* install_multiple, lines 399-426 (async 257-276)
InstallMultiple(a, packages, index_url, force_reinstall, upgrade, extra_args, verbose, dr) ==
    IF packages = <<>>
    THEN Nothing("install_multiple", a)
    ELSE Direct("install_multiple", a,
                InstallMultipleCommand(packages, index_url, force_reinstall,
                                       upgrade, extra_args), verbose, dr)

\* uninstall, lines 617-631 (async 278-285)
Uninstall(a, package, extra_args, verbose, dr) ==
    Direct("uninstall", a, UninstallCommand(package, extra_args), verbose, dr)

\* uninstall_multiple, lines 633-650 (async 287-295)
UninstallMultiple(a, packages, extra_args, verbose, dr) ==
    IF packages = <<>>
    THEN Nothing("uninstall_multiple", a)
    ELSE Direct("uninstall_multiple", a,
                UninstallMultipleCommand(packages, extra_args), verbose, dr)

\* install_multiple_if_not_installed, lines 446-450: the name asked for
PkgName(pkg_input) ==
    IF Requirement(pkg_input).ok THEN Requirement(pkg_input).name
    ELSE pkg_input

\* line 452: if not self.is_installed(pkg_name)
MarkedBySpecifier(e, pkg_input) ==
    ~is_installed(e, PkgName(pkg_input),
                  OrNone(SpecStr(Requirement(pkg_input).specifier)))
Marked(e, pkg_input) == ~is_installed(e, PkgName(pkg_input), None)

\* lines 444-459: packages_to_install
PackagesToInstall(e, packages) ==
    SelectSeq(packages, LAMBDA pkg_input : Marked(e, pkg_input))

\* install_multiple_if_not_installed, lines 428-476
InstallMultipleIfNotInstalled(packages, index_url, extra_args, verbose, dr) ==
    LET packages_to_install ==
            PackagesToInstall(env[QueriedEnv(target)], packages)
    IN  /\ Idle
        /\ BeginWith("install_multiple_if_not_installed", "sync",
                     AsList(packages), packages_to_install)
        /\ IF packages_to_install = <<>>
           THEN NoRun /\ ret' = "True" /\ pc' = "done"
           ELSE RunCommand("sync",
                           InstallMultipleCommand(packages_to_install,
                               index_url, FALSE, FALSE, extra_args),
                           CaptureOutput("sync", "install_multiple", verbose),
                           dr)
        /\ UNCHANGED <<items_to_check, is_dict_input, idx, prev>>

\* install_if_missing, lines 319-325 (_check_if_install_is_needed 255-261)
EffectiveSpecifier(package, version_specifier) ==
    IF Requirement(package).ok
    THEN (IF Truthy(version_specifier) THEN version_specifier
          ELSE OrNone(SpecStr(Requirement(package).specifier)))
    ELSE version_specifier

\* install_if_missing, lines 327-339: the deprecated version/enforce_version
WithDeprecated(effective_specifier, version, enforce_version) ==
    IF effective_specifier = None /\ enforce_version /\ Truthy(version)
    THEN <<"==">> \o version
    ELSE IF effective_specifier = None /\ Truthy(version) /\ ~enforce_version
    THEN <<">=">> \o version
    ELSE effective_specifier

\* lines 366-368, 384-388 (264): install_target
InstallTarget(package, effective_specifier) ==
    IF Requirement(package).ok /\ Requirement(package).specifier # <<>>
    THEN package
    ELSE PkgName(package) \o OrEmpty(effective_specifier)

\* lines 341-365 (267-287): needs_install
NeedsInstallWhenMissing(e, pkg_name, effective_specifier, always_update) ==
    ~is_installed(e, pkg_name, None)
NeedsInstall(e, pkg_name, effective_specifier, always_update) ==
    IF ~is_installed(e, pkg_name, None) THEN TRUE
    ELSE IF Truthy(effective_specifier)
            /\ ~is_version_compatible(e, pkg_name, effective_specifier)
    THEN TRUE
    ELSE always_update

\* lines 372-381 and 389-397: upgrade and force_reinstall of the install
\* call (async: 155-163 with force of lines 265-280)
InstallFlags(a, e, pkg_name, effective_specifier, always_update) ==
    IF a = "sync"
    THEN (IF is_installed(e, pkg_name, None)
          THEN [upgrade |-> TRUE, force |-> effective_specifier # None]
          ELSE [upgrade |-> always_update, force |-> FALSE])
    ELSE [upgrade |-> TRUE,
          force |-> /\ is_installed(e, pkg_name, None)
                    /\ Truthy(effective_specifier)
                    /\ ~is_version_compatible(e, pkg_name,
                                              effective_specifier)]

\* install_if_missing, lines 289-397 (async 133-163, which takes neither
\* version nor enforce_version)
InstallIfMissing(a, package, a_, index_url, extra_args, verbose, dr) ==
    LET e == env[QueriedEnv(target)]
        pkg_name == PkgName(package)
        effective_specifier ==
            IF a = "sync"
            THEN WithDeprecated(
                     EffectiveSpecifier(package, a_.version_specifier),
                     a_.version, a_.enforce_version)
            ELSE EffectiveSpecifier(package, a_.version_specifier)
        flags == InstallFlags(a, e, pkg_name, effective_specifier,
                              a_.always_update)
    IN  /\ Idle
        /\ op' = "install_if_missing" /\ api' = a
        /\ requirements' = AsStr(package) /\ args' = a_
        /\ locals' = FreshLocals(locals) /\ result' = <<>>
        /\ exitcode' = NoExit /\ streams' = NoStreams
        /\ IF NeedsInstall(e, pkg_name, effective_specifier, a_.always_update)
           THEN RunCommand(a,
                    InstallCommand(InstallTarget(package, effective_specifier),
                                   index_url, flags.force, flags.upgrade,
                                   extra_args),
                    CaptureOutput(a, "install", verbose), dr)
           ELSE NoRun /\ ret' = "True" /\ pc' = "done"
        /\ UNCHANGED <<env, target, boot, items_to_check, is_dict_input, idx,
                       prev>>

\* AsyncPackageManager.ensure_requirements, lines 224-236: the lines of the
\* file give the requirement strings and the pip options
RECURSIVE ParseRequirements(_, _)
ParseRequirements(lines, acc) ==
    IF lines = <<>> THEN acc
    ELSE LET line == strip(Head(lines))
             hash == {i \in 1..Len(line) : line[i] = "#"}
             package_req ==
                 strip(IF hash = {} THEN line
                       ELSE SubSeq(line, 1,
                              (CHOOSE i \in hash : \A j \in hash : i <= j) - 1))
         IN  ParseRequirements(Tail(lines),
                IF line = <<>> \/ line[1] = "#" THEN acc
                ELSE IF StartsWithDash(line)
                THEN [acc EXCEPT !.pip_options = @ \o Split(line, 1, <<>>)]
                ELSE IF package_req # <<>>
                THEN [acc EXCEPT !.requirements_list = Append(@, package_req)]
                ELSE acc)
Parsed(lines) ==
    ParseRequirements(lines, [requirements_list |-> <<>>, pip_options |-> <<>>])

\* pip reads the requirements file named after -r
FileRead(argv) ==
    LET R == {i \in 1..Len(argv) : argv[i] = <<"-r">>}
        r == CHOOSE i \in R : TRUE
    IN  IF R = {} THEN argv
        ELSE SubSeq(argv, 1, r - 1)
             \o Parsed(requirements.list).requirements_list
             \o SubSeq(argv, r + 2, Len(argv))

\* the process started last, and whether its executable can be found
LastStarted == started[Len(started)]
Executable(proc) == Argv(proc)[1][1]
CommandStr == Join(pip_command_base(target) \o commands[Len(commands)].command)

\* the child exits with a code (lines 181-194, async 92-100); a shell
\* that does not find the executable exits with a code other than 0
ChildExit(code) ==
    /\ pc = "running"
    /\ Exists(fs, Executable(LastStarted)) \/ (LastStarted.shell /\ code # 0)
    /\ IF code = 0
       THEN \E f \in Outcomes(env[Executable(LastStarted)],
                               FileRead(Argv(LastStarted))) :
                env' = [env EXCEPT ![Executable(LastStarted)] = f]
       ELSE UNCHANGED env
    /\ \E s \in ChildStreams :
          LET capture_output == commands[Len(commands)].capture_output
              read == Captured(capture_output, s)
          IN  /\ streams' = read
              /\ output' = IF Success(code)
                            THEN SuccessMessage(api, capture_output, read)
                            ELSE FailureMessage(api, code, CommandStr,
                                                capture_output, read)
    /\ exitcode' = code
    /\ ret' = IF Success(code) THEN "True" ELSE "False"
    /\ pc' = "done"
    /\ UNCHANGED <<target, op, api, requirements, items_to_check,
                   is_dict_input, idx, locals, result, dry_run, commands,
                   started, prev, args, boot>>

\* the child cannot be launched or waited for (lines 196-203, async
\* 102-109); subprocess.run raises FileNotFoundError for a missing executable
ChildError(kind) ==
    /\ pc = "running"
    /\ kind = "FileNotFoundError" =>
          (~LastStarted.shell /\ ~Exists(fs, Executable(LastStarted)))
    /\ kind # "FileNotFoundError" =>
          (LastStarted.shell \/ Exists(fs, Executable(LastStarted)))
    /\ exitcode' = LaunchError
    /\ ret' = "False"
    /\ output' = ErrorMessage(api, kind, pip_command_base(target), CommandStr)
    /\ pc' = "done"
    /\ UNCHANGED <<env, target, op, api, requirements, items_to_check,
                   is_dict_input, idx, locals, result, dry_run, commands,
                   started, prev, streams, args, boot>>

\* the caller has its answer; the call's frame is gone
Return ==
    /\ pc = "done"
    /\ pc' = "idle"
    /\ Reset
    /\ UNCHANGED <<env, target, boot>>

\* someone else installs, upgrades or removes a package between two calls
ExternalChange ==
    /\ Idle
    /\ \E e \in {"proc", target}, n \in Names :
        \E v \in {NotFound} \cup Index(n) :
          /\ Exists(fs, e)
          /\ env[e][n] # v
          /\ env' = [env EXCEPT ![e][n] = v]
    /\ pc' = "idle"
    /\ Reset
    /\ UNCHANGED <<target, boot>>

ExtraArgs == {<<>>, <<NoDeps>>}
Options == {<<None, <<>>, FALSE>>, <<URL, <<NoDeps>>, TRUE>>}
Apis == {"sync", "async"}
PkgStrings == Names \cup {<<"numpy", ">=", VerTok[MaxVer]>>}
PkgLists == SeqsUpTo(Names, MaxLen)
\* the arguments of install_if_missing
IfMissingPackages ==
    Names \cup {<<"numpy", ">=", VerTok[MaxVer]>>, <<"numpy", "==", "1">>,
                Malformed}
IfMissingArgs(a) ==
    {x \in [version : {None, <<VerTok[MaxVer]>>}, enforce_version : BOOLEAN,
            always_update : BOOLEAN,
            version_specifier : {None, <<">=", VerTok[MaxVer]>>}] :
        /\ a = "async" => (x.version = None /\ ~x.enforce_version)
        /\ x.version = None => ~x.enforce_version}
\* the packages handed to install_multiple_if_not_installed
IfNotInstalledLists ==
    SeqsUpTo(Names \cup {<<"numpy", ">=", VerTok[MaxVer]>>, Malformed}, MaxLen)

\* the calls a caller may make of an idle manager
Call ==
    \/ \E l \in ListInputs : Reconcile(AsList(l))
    \/ \E d \in DictInputs : Reconcile(AsDict(d))
    \/ \E s \in StrInputs : Reconcile(AsStr(s))
    \/ \E b \in BOOLEAN : Reconcile(AsOther(b))
    \/ \E l \in EnsureLists : EnsureSync(AsList(l))
    \/ \E d \in EnsureDicts : EnsureSync(AsDict(d))
    \/ \E s \in EnsureStrs : EnsureSync(AsStr(s))
    \/ \E b \in BOOLEAN : EnsureSync(AsOther(b))
    \/ \E l \in EnsureLists : EnsureAsync(AsList(l))
    \/ \E d \in EnsureDicts : EnsureAsync(AsDict(d))
    \/ \E s \in EnsureStrs : EnsureAsync(AsStr(s))
    \/ \E b \in BOOLEAN : EnsureAsync(AsOther(b))
    \/ \E a \in Apis, p \in PkgStrings, o \in Options, f, u, dr \in BOOLEAN :
          Install(a, p, o[1], f, u, o[2], o[3], dr)
    \/ \E a \in Apis, l \in PkgLists, o \in Options, f, u, dr \in BOOLEAN :
          InstallMultiple(a, l, o[1], f, u, o[2], o[3], dr)
    \/ \E a \in Apis, n \in Names, x \in ExtraArgs, dr \in BOOLEAN :
          Uninstall(a, n, x, FALSE, dr)
    \/ \E a \in Apis, l \in PkgLists, x \in ExtraArgs, dr \in BOOLEAN :
          UninstallMultiple(a, l, x, FALSE, dr)
    \/ \E l \in IfNotInstalledLists, o \in Options, dr \in BOOLEAN :
          InstallMultipleIfNotInstalled(l, o[1], o[2], o[3], dr)
    \/ \E a \in Apis, p \in IfMissingPackages, o \in Options, dr \in BOOLEAN :
          \E x \in IfMissingArgs(a) :
             InstallIfMissing(a, p, x, o[1], o[2], o[3], dr)

Next ==
    \/ Idle /\ Call
    \/ ReconcileAgain
    \/ CheckItem
    \/ ReturnList
    \/ EnsureMet
    \/ pc = "reconciled" /\ \E o \in Options, dr \in BOOLEAN :
                                EnsureInstall(o[1], o[2], o[3], dr)
    \/ \E c \in ExitCodes : ChildExit(c)
    \/ \E k \in ErrorKinds : ChildError(k)
    \/ Return
    \/ ExternalChange

Spec == Init /\ [][Next]_vars

\* ------------------------------------- construction, audit, command line
\* a process that has not constructed a manager yet
NoTarget == "none"
CliInit ==
    /\ pc = "new" /\ target = NoTarget
    /\ ctor = CtorArgs(None, None, None)
    /\ cli = NoCli /\ sysexit = NoExit
    /\ env \in [EnvIds -> EnvMaps]
    /\ fs \in {f \in SUBSET Files : "uv" \in f}
    /\ "venv" \notin fs => env["venv"] = AllAbsent
    /\ Blank

\* the variables of a call, which construction leaves alone
call == <<op, api, requirements, items_to_check, is_dict_input, idx, locals,
          result, dry_run, commands, output, prev, streams, args>>

\* PackageManager.__init__, lines 61-108, up to the creation of the
\* virtual environment: pip_command_base first, then venv_path, then
\* python_executable or sys.executable
Construct(c) ==
    /\ pc = "new"
    /\ ctor' = c
    /\ IF Truthy(c.pip_command_base)
       THEN /\ target' = c.pip_command_base[1][1] /\ pc' = "idle"
            /\ UNCHANGED started
       ELSE IF Truthy(c.venv_path)
       THEN IF Exists(fs, c.venv_path[1])
            THEN /\ target' = c.venv_path[1] /\ pc' = "idle"
                 /\ UNCHANGED started
            ELSE /\ started' =
                      <<[shell |-> FALSE,
                         argv |-> <<OrEmpty(c.python_executable), <<"-m">>,
                                    <<"venv">>, c.venv_path>>,
                         line |-> <<>>]>>
                 /\ pc' = "creating"
                 /\ UNCHANGED target
       ELSE /\ target' = IF Truthy(c.python_executable)
                         THEN c.python_executable[1] ELSE "proc"
            /\ pc' = "idle"
            /\ UNCHANGED started
    /\ UNCHANGED <<env, fs, exitcode, ret, call>>

\* line 79: base_python = python_executable or sys.executable
BasePython == IF Truthy(ctor.python_executable)
              THEN ctor.python_executable[1] ELSE "proc"

\* lines 84-92: subprocess.run(..., check=True) has ended with `code`, or
\* could not start base_python; `created`: the interpreter of the
\* environment exists afterwards
VenvCreatedUnchecked(code, created) ==
    /\ pc = "creating"
    /\ started' = <<>>
    /\ IF ~Exists(fs, BasePython)
       THEN /\ ret' = "FileNotFoundError" /\ pc' = "raised"
            /\ exitcode' = LaunchError
            /\ UNCHANGED <<env, fs, target>>
       ELSE /\ exitcode' = code
            /\ IF code # 0
               THEN /\ ret' = "CalledProcessError" /\ pc' = "raised"
                    /\ UNCHANGED <<env, fs, target>>
               ELSE /\ fs' = IF created THEN fs \cup {ctor.venv_path[1]}
                                        ELSE fs
                    /\ env' = [env EXCEPT ![ctor.venv_path[1]] = AllAbsent]
                    /\ target' = ctor.venv_path[1]
                    /\ pc' = "idle"
                    /\ UNCHANGED ret
    /\ UNCHANGED <<ctor, cli, sysexit, call>>
VenvCreated(code, created) ==
    /\ pc = "creating"
    /\ started' = <<>>
    /\ IF ~Exists(fs, BasePython)
       THEN /\ ret' = "FileNotFoundError" /\ pc' = "raised"
            /\ exitcode' = LaunchError
            /\ UNCHANGED <<env, fs, target>>
       ELSE /\ exitcode' = code
            /\ IF code # 0
               THEN /\ ret' = "CalledProcessError" /\ pc' = "raised"
                    /\ UNCHANGED <<env, fs, target>>
               ELSE IF ~created
               THEN /\ ret' = "RuntimeError" /\ pc' = "raised"
                    /\ UNCHANGED <<env, fs, target>>
               ELSE /\ fs' = fs \cup {ctor.venv_path[1]}
                    /\ env' = [env EXCEPT ![ctor.venv_path[1]] = AllAbsent]
                    /\ target' = ctor.venv_path[1]
                    /\ pc' = "idle"
                    /\ UNCHANGED ret
    /\ UNCHANGED <<ctor, cli, sysexit, call>>

\* the constructor calls of a library user
CtorInputs ==
    {CtorArgs(None, None, None),
     CtorArgs(<<"venv">>, None, None),
     CtorArgs(None, None, <<"venv">>),
     CtorArgs(<<"venv">>, None, <<"venv">>),
     CtorArgs(None, pip_command_base("proc"), None),
     CtorArgs(None, pip_command_base("venv"), <<"venv">>)}


\* check_vulnerabilities, lines 736-750 (async 319-325): the audit command
AuditCommand(a, pip_audit_exe, package_name, requirements_file, extra_args) ==
    <<pip_audit_exe>>
    \o (IF a = "sync"
        THEN (IF Truthy(package_name) THEN <<>>
              ELSE IF Truthy(requirements_file)
              THEN << <<"-r">>, requirements_file >> ELSE <<>>)
        ELSE (IF Truthy(requirements_file)
              THEN << <<"-r">>, requirements_file >> ELSE <<>>))
    \o extra_args

NotFoundText == <<"pip-audit not found.">>

\* check_vulnerabilities, lines 729-764 (async 314-335): shutil.which, then
\* the audit is started through the shell
CheckVulnerabilities(a, package_name, requirements_file, extra_args) ==
    /\ Idle
    /\ Begin("check_vulnerabilities", a, NoRequirements)
    /\ dry_run' = FALSE /\ commands' = <<>>
    /\ IF "pip-audit" \notin fs
       THEN /\ started' = <<>>
            /\ ret' = "True" /\ output' = NotFoundText
            /\ pc' = "done"
       ELSE /\ started' =
                  <<[shell |-> TRUE, argv |-> <<>>,
                     line |-> Join(AuditCommand(a, <<"pip-audit">>,
                                      package_name, requirements_file,
                                      extra_args))]>>
            /\ ret' = "none" /\ output' = <<>>
            /\ pc' = "auditing"
    /\ UNCHANGED <<items_to_check, is_dict_input, idx, prev>>

\* lines 765-781 (async 339-347): vulnerabilities_found by exit code
AuditFoundOnOne(code) == code = 1
AuditFound(code) == code # 0

AuditReport(code, s) ==
    IF code = 0 THEN s.out
    ELSE IF code = 1
    THEN <<"Vulnerabilities found:\n">> \o s.out \o <<"\n">> \o s.err
    ELSE <<"pip-audit error:\n">> \o s.err

\* the audit has exited
AuditExit(code, s) ==
    /\ pc = "auditing"
    /\ exitcode' = code /\ streams' = s
    /\ ret' = IF AuditFound(code) THEN "True" ELSE "False"
    /\ output' = AuditReport(code, s)
    /\ pc' = "done"
    /\ UNCHANGED <<env, target, op, api, requirements, items_to_check,
                   is_dict_input, idx, locals, result, dry_run, commands,
                   started, prev, args, boot>>

\* lines 782-784 (async 348-350): any exception while running the audit
AuditError ==
    /\ pc = "auditing"
    /\ exitcode' = LaunchError
    /\ ret' = "True"
    /\ output' = <<"Error running pip-audit: ", "e">>
    /\ pc' = "done"
    /\ UNCHANGED <<env, target, op, api, requirements, items_to_check,
                   is_dict_input, idx, locals, result, dry_run, commands,
                   started, prev, streams, args, boot>>

\* get_pip_manager_for_version(python, path): the environment is created
\* for the interpreter version and a manager targeting it is returned, or
\* an exception is raised
get_pip_manager_for_version(path, ok) ==
    /\ pc = "new"
    /\ ctor' = CtorArgs(path, None, None)
    /\ IF ok
       THEN /\ fs' = fs \cup {path[1]}
            /\ env' = IF Exists(fs, path[1]) THEN env
                       ELSE [env EXCEPT ![path[1]] = AllAbsent]
            /\ target' = path[1]
            /\ pc' = "idle"
            /\ UNCHANGED ret
       ELSE /\ ret' = "Exception" /\ pc' = "raised"
            /\ UNCHANGED <<env, fs, target>>
    /\ UNCHANGED <<started, exitcode, call>>

\* get_target_pm, cli/main.py lines 7-19: the default manager for "." or
\* None, a manager constructed for the path otherwise
Here == <<".">>
get_target_pm(env_path) ==
    IF env_path = Here \/ env_path = None
    THEN /\ pc = "new"
         /\ ctor' = CtorArgs(None, None, None)
         /\ target' = "proc" /\ pc' = "idle"
         /\ UNCHANGED <<env, fs, started, exitcode, ret, call>>
    ELSE Construct(CtorArgs(None, None, env_path))

\* the command lines of cli/main.py, lines 122-146
CliArgs(command, e, packages, dr) ==
    [command |-> command, env |-> e, packages |-> packages, dry_run |-> dr]
CliInputs ==
    {CliArgs("equip", e, l, dr) :
        e \in {Here, <<"venv">>}, l \in {<< <<"numpy">> >>, <<Malformed>>},
        dr \in BOOLEAN}
    \cup {CliArgs("banish", e, << <<"numpy">> >>, FALSE) :
            e \in {Here, <<"venv">>}}
    \cup {CliArgs("scout", e, << <<"numpy">> >>, FALSE) :
            e \in {Here, <<"venv">>}}
    \cup {CliArgs("scan", e, <<>>, FALSE) : e \in {Here, <<"venv">>}}
    \cup {CliArgs("forge", <<"venv">>, l, FALSE) :
            l \in {<<>>, << <<"numpy">> >>, <<Malformed>>}}

\* main, lines 148-163, up to the manager the handler works with
CliStart(c, ok) ==
    /\ pc = "new" /\ cli = NoCli
    /\ cli' = c
    /\ IF c.command = "forge" THEN get_pip_manager_for_version(c.env, ok)
       ELSE ok /\ get_target_pm(c.env)
    /\ UNCHANGED sysexit

\* handle_scout, lines 85-93: is_installed, then get_package_info
Scout(package) ==
    IF is_installed(env[QueriedEnv(target)], package, None)
    THEN Direct("get_package_info", "sync", << <<"show">>, package >>,
                FALSE, FALSE)
    ELSE /\ Idle
         /\ Begin("is_installed", "sync", NoRequirements)
         /\ NoRun
         /\ ret' = "False" /\ pc' = "done"
         /\ UNCHANGED <<items_to_check, is_dict_input, idx, prev>>

\* handle_forge line 33: no initial packages, nothing is installed
ForgeOnly ==
    /\ Idle
    /\ Begin("none", "sync", NoRequirements)
    /\ NoRun
    /\ ret' = "none" /\ pc' = "done"
    /\ UNCHANGED <<items_to_check, is_dict_input, idx, prev>>

\* the operation of the handler (lines 35, 49-53, 68-71, 85-93, 104)
CliRun ==
    /\ cli # NoCli /\ op = "none"
    /\ IF cli.command = "equip"
       THEN InstallMultiple("sync", cli.packages, None, FALSE, TRUE, <<>>,
                            TRUE, cli.dry_run)
       ELSE IF cli.command = "banish"
       THEN UninstallMultiple("sync", cli.packages, <<>>, TRUE, FALSE)
       ELSE IF cli.command = "scan"
       THEN CheckVulnerabilities("sync", None, None, <<>>)
       ELSE IF cli.command = "scout"
       THEN Scout(cli.packages[1])
       ELSE IF cli.packages # <<>>
       THEN InstallMultiple("sync", cli.packages, None, FALSE, TRUE, <<>>,
                            TRUE, FALSE)
       ELSE ForgeOnly

\* how the handler ends: sys.exit(1) or a plain return (lines 17-19, 38-40,
\* 55-59, 73-77, 106-111)
Raised == {"FileNotFoundError", "CalledProcessError", "RuntimeError",
           "Exception"}
ExitStatus(command, r) ==
    IF r \in Raised THEN 1
    ELSE IF command \in {"equip", "banish"}
    THEN (IF r = "True" THEN 0 ELSE 1)
    ELSE IF command = "scan" THEN (IF r = "True" THEN 1 ELSE 0)
    ELSE 0

CliExit ==
    /\ pc \in {"done", "raised"} /\ cli # NoCli
    /\ sysexit' = ExitStatus(cli.command, ret)
    /\ pc' = "exited"
    /\ UNCHANGED <<env, target, fs, ctor, cli, started, exitcode, ret, call>>

CliNext ==
    \/ \E c \in CtorInputs :
          cli = NoCli /\ Construct(c) /\ UNCHANGED <<cli, sysexit>>
    \/ \E code \in ExitCodes, created \in BOOLEAN : VenvCreated(code, created)
    \/ \E c \in CliInputs, ok \in BOOLEAN : CliStart(c, ok)
    \/ CliRun
    \/ cli = NoCli /\ \E a \in Apis, o \in {<<None, None, <<>> >>,
                                              <<<<"numpy">>, <<"req.txt">>,
                                                <<NoDeps>> >>} :
                         CheckVulnerabilities(a, o[1], o[2], o[3])
    \/ \E code \in 0..2, s \in ChildStreams : AuditExit(code, s)
    \/ AuditError
    \/ \E c \in ExitCodes : ChildExit(c)
    \/ \E k \in ErrorKinds : ChildError(k)
    \/ CliExit

SpecCli == CliInit /\ [][CliNext]_vars

\* ------------------------------------------------------------------
\* ensure_requirements (package_manager.py, lines 958-985;
\* async_package_manager.py, lines 197-243)

ReqFile == <<"req.txt">>
ReqLines == {<<"numpy">>, <<"numpy", ">=", VerTok[MaxVer]>>, <<"#", "c">>,
             <<"requests", " ", "#", "c">>, NoDeps}

EnsureRequirements(a, exists, lines, verbose, dr) ==
    /\ Idle
    /\ Begin("ensure_requirements", a, AsList(lines))
    /\ prev' = NoPrev
    /\ IF ~exists
       THEN /\ NoRun /\ ret' = "False" /\ pc' = "done"
            /\ UNCHANGED <<items_to_check, is_dict_input, idx>>
       ELSE IF a = "sync"
       THEN /\ RunCommand(a, << <<"install">>, <<"-r">>, ReqFile >>,
                          CaptureOutput(a, "ensure_requirements", verbose), dr)
            /\ UNCHANGED <<items_to_check, is_dict_input, idx>>
       ELSE IF /\ Parsed(lines).requirements_list = <<>>
               /\ Parsed(lines).pip_options = <<>>
       THEN /\ NoRun /\ ret' = "True" /\ pc' = "done"
            /\ UNCHANGED <<items_to_check, is_dict_input, idx>>
       ELSE /\ NoRun /\ ret' = "none"
            /\ EnterReconciler(AsList(Parsed(lines).requirements_list))

ReqNext ==
    \/ \E a \in Apis, exists, verbose, dr \in BOOLEAN :
          \E lines \in SeqsUpTo(ReqLines, MaxLen) :
             EnsureRequirements(a, exists, lines, verbose, dr)
    \/ CheckItem
    \/ EnsureMet
    \/ \E verbose, dr \in BOOLEAN :
          EnsureInstall(None, Parsed(requirements.list).pip_options,
                        verbose, dr)
    \/ \E c \in ExitCodes : ChildExit(c)
    \/ \E k \in ErrorKinds : ChildError(k)
    \/ Return

SpecReq == Init /\ [][ReqNext]_vars

\* ------------------------------------------------------------------
\* the queries called directly (package_manager.py, lines 501-584)

QueryFns == {"is_installed", "get_installed_version",
             "get_current_package_version", "is_version_compatible"}

\* the except clauses of each query (lines 519, 527, 575-581);
\* InvalidRequirement and InvalidVersion are ValueErrors
CaughtNotFoundOnly(fn) == {"PackageNotFoundError"}
Caught(fn) ==
    IF fn = "is_version_compatible"
    THEN {"PackageNotFoundError", "ValueError"}
    ELSE {"PackageNotFoundError"}

\* the exception raised inside the try block of a query, "none" if none:
\* importlib.metadata raises PackageNotFoundError, Requirement raises
\* ValueError; is_installed calls is_version_compatible for a specifier
Thrown(fn, e, name, version_specifier) ==
    LET invalid == /\ Lookup(e, name) # NotFound
                   /\ ~Requirement(<<"dummy">> \o version_specifier).ok
    IN  IF fn = "is_version_compatible"
        THEN (IF invalid THEN "ValueError" ELSE "none")
        ELSE IF Lookup(e, name) = NotFound THEN "PackageNotFoundError"
        ELSE IF /\ fn = "is_installed" /\ Truthy(version_specifier)
                /\ invalid
                /\ "ValueError" \notin Caught("is_version_compatible")
        THEN "ValueError"
        ELSE "none"

\* what the caller of a query gets: the value, or the exception
Answer(fn, e, name, version_specifier) ==
    LET thrown == Thrown(fn, e, name, version_specifier)
        bool(b) == IF b THEN "True" ELSE "False"
    IN  IF thrown # "none" /\ thrown \notin Caught(fn) THEN thrown
        ELSE IF fn = "is_installed"
        THEN bool(is_installed(e, name, version_specifier))
        ELSE IF fn = "is_version_compatible"
        THEN bool(is_version_compatible(e, name, version_specifier))
        ELSE IF get_installed_version(e, name) = NotFound THEN "None"
        ELSE VerTok[get_installed_version(e, name)]

CallQuery(fn, name, version_specifier) ==
    /\ Idle
    /\ op' = fn /\ api' = "sync" /\ requirements' = AsStr(name)
    /\ args' = [NoArgs EXCEPT !.version_specifier = version_specifier]
    /\ locals' = FreshLocals(locals) /\ result' = <<>>
    /\ exitcode' = NoExit /\ streams' = NoStreams
    /\ NoRun
    /\ ret' = Answer(fn, env[QueriedEnv(target)], name, version_specifier)
    /\ pc' = IF ret' \in {"PackageNotFoundError", "ValueError"}
             THEN "raised" ELSE "done"
    /\ UNCHANGED <<env, target, boot, items_to_check, is_dict_input, idx,
                   prev>>

QueryNames == Names \cup {<<"dummy">>}
QuerySpecifiers == {<<">=", VerTok[MaxVer]>>, <<"==", "1">>, <<"!">>, <<"1">>}

QueryNext ==
    \/ \E n \in QueryNames, v \in {None} \cup QuerySpecifiers :
          CallQuery("is_installed", n, v)
    \/ \E n \in QueryNames,
          fn \in {"get_installed_version", "get_current_package_version"} :
          CallQuery(fn, n, None)
    \/ \E n \in QueryNames, v \in QuerySpecifiers :
          CallQuery("is_version_compatible", n, v)
    \/ Return
    \/ ExternalChange

SpecQuery == Init /\ [][QueryNext]_vars

\* ------------------------------------------------------------------
\* two tasks awaiting calls of one AsyncPackageManager
\* (async_package_manager.py, lines 45-131, 165-195); here `result` lists
\* the children that have exited, in the order of their exits

Outstanding == {i \in 1..Len(started) : \A j \in 1..Len(result) : result[j] # i}

\* _run_command, lines 58-70: the child is created and awaited; nothing
\* keeps another task from doing the same meanwhile
TaskRun(o, command) ==
    /\ pc \in {"idle", "running"} /\ Len(started) < 2
    /\ op' = o /\ api' = "async"
    /\ commands' = Append(commands, [command |-> command, dry_run |-> FALSE,
                                     capture_output |-> FALSE])
    /\ started' = Append(started,
                         Process("async", pip_command_base(target), command))
    /\ pc' = "running"
    /\ UNCHANGED <<env, target, requirements, items_to_check, is_dict_input,
                   idx, locals, result, dry_run, exitcode, ret, output, prev,
                   streams, args, boot>>

\* a task awaits install(package), lines 113-131
TaskInstall(package) ==
    TaskRun("install", InstallCommand(package, None, FALSE, FALSE, <<>>))

\* a task awaits ensure_packages(requirements), lines 174-195: the
\* reconciler in the executor, then install_multiple for what is unmet
TaskEnsure(req) ==
    /\ _get_packages_to_process(env[QueriedEnv(target)], req) # <<>>
    /\ TaskRun("ensure_packages",
               EnsureCommand(_get_packages_to_process(env[QueriedEnv(target)],
                                                      req), None, <<>>))

\* the child of one of the tasks exits, lines 87-100
TaskExit(i, code) ==
    /\ pc = "running" /\ i \in Outstanding
    /\ Exists(fs, Executable(started[i])) \/ code # 0
    /\ IF code = 0
       THEN \E f \in Outcomes(env[Executable(started[i])], Argv(started[i])) :
                env' = [env EXCEPT ![Executable(started[i])] = f]
       ELSE UNCHANGED env
    /\ result' = Append(result, i)
    /\ exitcode' = code
    /\ ret' = IF Success(code) THEN "True" ELSE "False"
    /\ pc' = IF Outstanding = {i} THEN "done" ELSE "running"
    /\ UNCHANGED <<target, op, api, requirements, items_to_check,
                   is_dict_input, idx, locals, dry_run, commands, started,
                   output, prev, streams, args, boot>>

TasksNext ==
    \/ \E p \in PkgStrings : TaskInstall(p)
    \/ \E l \in PkgLists : TaskEnsure(AsList(l))
    \/ \E i \in 1..2, c \in ExitCodes : TaskExit(i, c)
    \/ Return

SpecTasks == Init /\ [][TasksNext]_vars

\* ------------------------------------------------------------------
\* UvPackageManager (package_manager.py, lines 1567-1749)

UvInit ==
    /\ pc = "new" /\ target = NoTarget
    /\ ctor = CtorArgs(None, None, None)
    /\ cli = NoCli /\ sysexit = NoExit
    /\ env \in [EnvIds -> EnvMaps]
    /\ fs \in {f \in SUBSET Files : "pip-audit" \in f}
    /\ "venv" \notin fs => env["venv"] = AllAbsent
    /\ Blank

\* __init__, lines 1573-1601: uv must be on the path; python_executable is
\* that of environment_path, or None
UvConstruct(environment_path) ==
    /\ pc = "new"
    /\ ctor' = CtorArgs(None, None, environment_path)
    /\ IF "uv" \notin fs
       THEN /\ ret' = "FileNotFoundError" /\ pc' = "raised"
            /\ UNCHANGED target
       ELSE /\ target' = IF Truthy(environment_path) THEN environment_path[1]
                          ELSE NoTarget
            /\ pc' = "idle"
            /\ UNCHANGED ret
    /\ UNCHANGED <<env, fs, cli, sysexit, started, exitcode, call>>

\* `if not self.python_executable` (lines 1677, 1695, 1713)
ConfiguredAlways(t) == TRUE
Configured(t) == t # NoTarget

Quoted(s) == <<"\"">> \o s \o <<"\"">>
\* f'--python="{self.python_executable}"', with line 1647
UvPython(t) == <<"--python=">> \o Quoted(<<t, "/bin/python">>)

\* _run_command, lines 1603-1627: the uv command line, run by the shell
UvRunCommand(o, req, command) ==
    /\ Idle
    /\ Begin(o, "uv", req)
    /\ dry_run' = FALSE
    /\ commands' = <<[command |-> command, dry_run |-> FALSE,
                      capture_output |-> FALSE]>>
    /\ started' = <<[shell |-> TRUE, argv |-> <<>>,
                     line |-> Join(<<Quoted(<<"uv">>)>> \o command)]>>
    /\ pc' = "running"
    /\ UNCHANGED <<ret, output, items_to_check, is_dict_input, idx, prev>>

\* the early returns of install, install_multiple and uninstall
UvReturn(o, r) ==
    /\ Idle
    /\ Begin(o, "uv", NoRequirements)
    /\ NoRun
    /\ ret' = r /\ pc' = "done"
    /\ UNCHANGED <<items_to_check, is_dict_input, idx, prev>>

\* create_env, lines 1652-1656
UvCreateEnv(path, python_version) ==
    UvRunCommand("create_env", AsStr(path),
                 << <<"venv">>, Quoted(path) >>
                 \o (IF Truthy(python_version)
                     THEN << <<"--python">>, python_version >> ELSE <<>>))

\* install, lines 1669-1686
UvInstall(package, extra_args) ==
    IF ~Configured(target) THEN UvReturn("install", "False")
    ELSE UvRunCommand("install", NoRequirements,
                      << <<"pip">>, <<"install">>, UvPython(target), package >>
                      \o extra_args)

\* install_multiple, lines 1688-1707
UvInstallMultiple(packages, extra_args) ==
    IF ~Configured(target) THEN UvReturn("install_multiple", "False")
    ELSE IF packages = <<>> THEN UvReturn("install_multiple", "True")
    ELSE UvRunCommand("install_multiple", NoRequirements,
                      << <<"pip">>, <<"install">>, UvPython(target) >>
                      \o packages \o extra_args)

\* uninstall, lines 1709-1724
UvUninstall(package, extra_args) ==
    IF ~Configured(target) THEN UvReturn("uninstall", "False")
    ELSE UvRunCommand("uninstall", NoRequirements,
                      << <<"pip">>, <<"uninstall">>, UvPython(target),
                         package >> \o extra_args)

\* what uv leaves behind on exit code 0, given the requirement strings of
\* its pip command
UvOutcomes(e, files, command, t) ==
    LET items == {command[i] : i \in {j \in 4..Len(command) :
                                          ~StartsWithDash(command[j])}}
    IN  IF command[1] = <<"venv">>
        THEN {[e EXCEPT ![t] = AllAbsent]}
        ELSE IF ~Exists(files, t) THEN {}
        ELSE IF command[2] = <<"install">>
        THEN (IF CanInstall(items)
              THEN {[e EXCEPT ![t] = f] : f \in Installed(e[t], items)}
              ELSE {})
        ELSE {[e EXCEPT ![t] = Uninstalled(e[t], items)]}

\* lines 1629-1645
UvMessage(code, line) ==
    IF code = 0 THEN Executed
    ELSE <<"uv command failed with exit code ", CodeTok(code), ": ">>
         \o line \o <<"\nCheck console output for details.">>

\* create_env, line 1657: `if success:`
RetargetsAlways(o, code) == o = "create_env"
Retargets(o, code) == o = "create_env" /\ code = 0

\* uv has exited (lines 1627-1645); create_env targets the environment it
\* created (lines 1657-1666)
UvExit(code) ==
    /\ pc = "running" /\ api = "uv"
    /\ LET command == commands[1].command
           t == IF op = "create_env" THEN requirements.str[1] ELSE target
       IN  /\ IF code = 0
              THEN /\ env' \in UvOutcomes(env, fs, command, t)
                   /\ fs' = IF op = "create_env" THEN fs \cup {t} ELSE fs
              ELSE UNCHANGED <<env, fs>>
           /\ target' = IF Retargets(op, code) THEN t ELSE target
    /\ exitcode' = code
    /\ ret' = IF code = 0 THEN "True" ELSE "False"
    /\ output' = UvMessage(code, started[1].line)
    /\ pc' = "done"
    /\ UNCHANGED <<op, api, requirements, items_to_check, is_dict_input,
                   idx, locals, result, dry_run, commands, started, prev,
                   streams, args, ctor, cli, sysexit>>

\* lines 1647-1650: any exception while running uv
UvError ==
    /\ pc = "running" /\ api = "uv"
    /\ exitcode' = LaunchError
    /\ ret' = "False"
    /\ output' = <<"An unexpected error occurred while running uv command '">>
                 \o started[1].line \o <<"': ", "e">>
    /\ pc' = "done"
    /\ UNCHANGED <<env, target, op, api, requirements, items_to_check,
                   is_dict_input, idx, locals, result, dry_run, commands,
                   started, prev, streams, args, boot>>

UvPackages == Names \cup {Malformed}
UvLists == {<<>>, << <<"numpy">> >>, << <<"numpy">>, <<"requests">> >>}

UvNext ==
    \/ \E p \in {None, <<"venv">>} : UvConstruct(p)
    \/ \E v \in {None, <<"3.12">>} : UvCreateEnv(<<"venv">>, v)
    \/ \E p \in UvPackages, x \in ExtraArgs : UvInstall(p, x)
    \/ \E l \in UvLists, x \in ExtraArgs : UvInstallMultiple(l, x)
    \/ \E p \in UvPackages, x \in ExtraArgs : UvUninstall(p, x)
    \/ \E c \in ExitCodes : UvExit(c)
    \/ UvError
    \/ Return

SpecUv == UvInit /\ [][UvNext]_vars

\* ------------------------------------------------------ properties
Range(s) == {s[i] : i \in 1..Len(s)}

RECURSIVE IsSubseq(_, _)
IsSubseq(a, b) ==
    IF a = <<>> THEN TRUE
    ELSE IF b = <<>> THEN FALSE
    ELSE IF Head(a) = Head(b) THEN IsSubseq(Tail(a), Tail(b))
    ELSE IsSubseq(a, Tail(b))

\* the reconciler has just returned `result`
Reconciled == pc = "reconciled"
\* the environment the metadata queries of the running interpreter read
Seen == env["proc"]

ListInput == requirements.truthy /\ requirements.kind \in {"list", "str"}
DictInput == requirements.truthy /\ requirements.kind = "dict"
TheList == IF requirements.kind = "str" THEN <<requirements.str>>
           ELSE requirements.list
TheDict == requirements.dict

WellFormed(s) == Requirement(s).ok
NameOf(s) == Requirement(s).name
\* the first well-formed entry of the list that names its package
FirstOcc(l, i) ==
    /\ WellFormed(l[i])
    /\ \A j \in 1..(i - 1) : WellFormed(l[j]) => NameOf(l[j]) # NameOf(l[i])

\* a mapping entry: a bare package name and None or one specifier clause
IsSpecifier(v) ==
    Len(Strip(v)) = 2 /\ Strip(v)[1] \in OpToks /\ Strip(v)[2] \in DigitToks
WellFormedEntry(kv) ==
    /\ WellFormed(kv[1]) /\ Requirement(kv[1]).specifier = <<>>
    /\ (kv[2] = None \/ IsSpecifier(kv[2]))
ClausesOf(v) ==
    IF v = None THEN <<>>
    ELSE <<[op |-> Strip(v)[1], ver |-> VerOf(Strip(v)[2])]>>

\* installed AND (no specifier OR the installed version satisfies it)
Met(e, n, clauses) ==
    /\ Lookup(e, n) # NotFound
    /\ (clauses = <<>> \/ \A i \in 1..Len(clauses) :
                             ClauseHolds(clauses[i], Lookup(e, n)))

\* C1: when the reconciler returns, the install target of every well-formed
\* requirement (for a list: of the first entry naming the package) is in the
\* unmet list iff the package is not installed in the environment the queries
\* read, or a specifier is given and the installed version violates it.
C1_MetIffInstalledAndCompatible ==
    Reconciled =>
      /\ ListInput =>
           \A i \in 1..Len(TheList) :
              FirstOcc(TheList, i) =>
                ((TheList[i] \in Range(result)) <=>
                 ~Met(Seen, NameOf(TheList[i]),
                      Requirement(TheList[i]).specifier))
      /\ DictInput =>
           \A i \in 1..Len(TheDict) :
              WellFormedEntry(TheDict[i]) =>
                ((NameOf(TheDict[i][1]) \o OrEmpty(TheDict[i][2])
                     \in Range(result)) <=>
                 ~Met(Seen, NameOf(TheDict[i][1]), ClausesOf(TheDict[i][2])))

\* C1 witness: a list whose first entry is installed in a version its
\* specifier rejects (reported unmet) and whose second entry is met
C1_Witness ==
    /\ Reconciled /\ requirements.kind = "list" /\ Len(TheList) = 2
    /\ FirstOcc(TheList, 1) /\ FirstOcc(TheList, 2)
    /\ Lookup(Seen, NameOf(TheList[1])) # NotFound
    /\ Requirement(TheList[1]).specifier # <<>>
    /\ result = <<TheList[1]>>

\* the strings a mapping stands for, entry by entry ("" for a bad key)
DictStrings(d) ==
    [i \in 1..Len(d) |->
        IF WellFormed(d[i][1]) THEN NameOf(d[i][1]) \o OrEmpty(d[i][2])
        ELSE <<>>]

\* C2: the unmet list of a list input is a subsequence of the input (the
\* strings unchanged, in input order); the unmet list of a mapping is a
\* subsequence of name + specifier value (the bare name for None), in the
\* mapping's iteration order.
C2_OriginalStringsInOrder ==
    Reconciled =>
      /\ ListInput => IsSubseq(result, TheList)
      /\ DictInput => /\ IsSubseq(result, DictStrings(TheDict))
                      /\ <<>> \notin Range(result)

\* C2 witness: "numpy >=2" (with its blank) is reported as written, before
\* a second unmet entry
C2_Witness ==
    /\ Reconciled /\ requirements.kind = "list"
    /\ Len(result) = 2 /\ result[1] = Blanked /\ result = TheList

\* C3: for list input the unmet list holds at most one string per package
\* name, each string is that of the first entry naming the package, and the
\* environment is asked at most once per name.
C3_FirstOccurrenceWins ==
    (Reconciled /\ ListInput) =>
      /\ \A j, k \in 1..Len(result) :
            j # k => NameOf(result[j]) # NameOf(result[k])
      /\ \A j \in 1..Len(result) :
            \E i \in 1..Len(TheList) :
               FirstOcc(TheList, i) /\ TheList[i] = result[j]
      /\ \A q, r \in 1..Len(locals.queries) :
            q # r => locals.queries[q] # locals.queries[r]
      /\ Cardinality({q \in 1..Len(locals.queries) :
                        locals.queries[q].fn = "is_installed"})
           = Cardinality({NameOf(TheList[i]) : i \in
                            {j \in 1..Len(TheList) : WellFormed(TheList[j])}})

\* C3 witness: "numpy" then "numpy>=2" with an older numpy installed: the
\* second entry alone would be unmet, yet nothing is reported
C3_Witness ==
    /\ Reconciled /\ requirements.kind = "list" /\ Len(TheList) = 2
    /\ WellFormed(TheList[1]) /\ WellFormed(TheList[2])
    /\ NameOf(TheList[1]) = NameOf(TheList[2])
    /\ ~Met(Seen, NameOf(TheList[2]), Requirement(TheList[2]).specifier)
    /\ result = <<>>
    /\ Len(locals.queries) = 1

\* C4: malformed list entries are skipped: the unmet list is the one the
\* reconciler computes for the list without them, and holds none of them.
C4_MalformedSkipped ==
    (Reconciled /\ requirements.kind = "list" /\ requirements.truthy) =>
      /\ result = _get_packages_to_process(
                     Seen, AsList(SelectSeq(TheList, WellFormed)))
      /\ \A j \in 1..Len(result) : WellFormed(result[j])

\* C4 witness: a malformed entry followed by a well-formed unmet one
C4_Witness ==
    /\ Reconciled /\ requirements.kind = "list" /\ Len(TheList) = 2
    /\ ~WellFormed(TheList[1]) /\ WellFormed(TheList[2])
    /\ result = <<TheList[2]>>

\* every entry is met (malformed list entries, which are skipped, aside)
AllMet ==
    /\ ListInput =>
         \A i \in 1..Len(TheList) :
            WellFormed(TheList[i]) =>
               Met(Seen, NameOf(TheList[i]), Requirement(TheList[i]).specifier)
    /\ DictInput =>
         \A i \in 1..Len(TheDict) :
            /\ WellFormedEntry(TheDict[i])
            /\ Met(Seen, NameOf(TheDict[i][1]), ClausesOf(TheDict[i][2]))

\* C5: a fully met set of requirements gives the empty list, and the same
\* call repeated with the environment untouched gives the same list.
C5_EmptyAndIdempotent ==
    /\ (Reconciled /\ AllMet) => result = <<>>
    /\ (pc = "done" /\ prev.valid) => result = prev.result

\* C5 witness: the second of two identical calls has returned a list of two
C5_Witness ==
    /\ pc = "done" /\ prev.valid /\ Len(result) = 2 /\ Len(items_to_check) = 2

\* C6: every step of the reconciler (its entry, each turn of its loop, its
\* return), for any input, leaves every environment as it was and starts
\* no child process nor hands any command to _run_command.
C6_ReconcilerOnlyReads ==
    [][(pc' \in {"loop", "reconciled"} \/ op' = "_get_packages_to_process")
         => (env' = env /\ started' = <<>> /\ commands' = <<>>)]_vars

\* C6 witness: the reconciler has returned unmet requirements of a mapping
\* and nothing was started
C6_Witness ==
    /\ pc = "done" /\ op = "_get_packages_to_process"
    /\ requirements.kind = "dict" /\ Len(result) = 2
    /\ started = <<>> /\ commands = <<>>

IsSuffix(a, b) ==
    Len(a) <= Len(b) /\ SubSeq(b, Len(b) - Len(a) + 1, Len(b)) = a

\* C7: a call of ensure_packages hands at most one command to _run_command
\* and starts at most one child; with a non-empty unmet list the command is
\* "install --upgrade", without --force-reinstall, ending with the whole
\* unmet list, and unless dry_run it is the one child started; for an
\* empty input (nothing is asked of the environment) or requirements that
\* are all met there is no command and the call returns True.
C7_OneBatchInvocation ==
    op = "ensure_packages" =>
      /\ Len(commands) <= 1 /\ Len(started) <= 1
      /\ (pc \in {"running", "done"} /\ result # <<>>) =>
            /\ Len(commands) = 1
            /\ SubSeq(commands[1].command, 1, 2)
                  = << <<"install">>, <<"--upgrade">> >>
            /\ <<"--force-reinstall">> \notin Range(commands[1].command)
            /\ IsSuffix(result, commands[1].command)
            /\ Len(started) = IF commands[1].dry_run THEN 0 ELSE 1
            /\ \A i \in 1..Len(started) :
                  started[i] = Process(api, pip_command_base(target),
                                       commands[1].command)
      /\ (pc = "done" /\ requirements.kind \in {"str", "list", "dict"}
            /\ (~requirements.truthy \/ (result = <<>> /\ AllMet))) =>
            /\ commands = <<>> /\ started = <<>> /\ ret = "True"
            /\ (~requirements.truthy => locals.queries = <<>>)

\* C7 witness: two unmet requirements went to pip in one command, which
\* exited with code 0
C7_Witness ==
    /\ pc = "done" /\ op = "ensure_packages" /\ Len(result) = 2
    /\ Len(started) = 1 /\ exitcode = 0 /\ ret = "True"

\* C8: without dry_run, ensure_packages with a non-empty unmet list,
\* install_multiple with packages and install return True iff the child
\* exited with code 0, and False otherwise.
C8_SuccessIsExitCodeZero ==
    (pc = "done" /\ ~dry_run /\ commands # <<>>
       /\ op \in {"ensure_packages", "install_multiple", "install"}) =>
      /\ ret \in {"True", "False"}
      /\ ret = "True" <=> exitcode = 0

\* C8 witness: pip exited with code 1 and ensure_packages returned False
C8_Witness ==
    /\ pc = "done" /\ op = "ensure_packages" /\ ~dry_run /\ result # <<>>
    /\ exitcode = 1 /\ ret = "False"

\* every well-formed requirement of the input is met in environment e
InputMet(e) ==
    /\ ListInput =>
         \A i \in 1..Len(TheList) :
            WellFormed(TheList[i]) =>
               Met(e, NameOf(TheList[i]), Requirement(TheList[i]).specifier)
    /\ DictInput =>
         \A i \in 1..Len(TheDict) :
            WellFormedEntry(TheDict[i]) =>
               Met(e, NameOf(TheDict[i][1]), ClausesOf(TheDict[i][2]))

\* C9: when the synchronous ensure_packages of a manager that targets the
\* running interpreter returns True without dry_run, every well-formed
\* requirement of the input is met in the environment.
C9_TrueMeansAllMet ==
    (pc = "done" /\ op = "ensure_packages" /\ api = "sync"
       /\ target = "proc" /\ ~dry_run /\ ret = "True")
      => InputMet(env[target])

\* C10: a command handed to _run_command with dry_run=True (by install,
\* install_multiple, uninstall, uninstall_multiple or ensure_packages, of
\* either manager) starts no child and changes no environment; the call
\* returns True and the text "Dry run: Command would be '...'", in which
\* the words of the command that would have run appear in their order.
C10_DryRunRunsNothing ==
    [][(commands' # <<>> /\ commands'[1].dry_run) =>
          /\ env' = env
          /\ started' = <<>>
          /\ pc' = "done" /\ ret' = "True"
          /\ Head(output') = DryRunPrefix
          /\ output'[Len(output')] = "'"
          /\ IsSubseq(Join(pip_command_base(target)
                           \o commands'[1].command), output')]_vars

\* C10 witness: the asynchronous ensure_packages reported the install of
\* two unmet requirements as a dry run
C10_Witness ==
    /\ pc = "done" /\ op = "ensure_packages" /\ api = "async" /\ dry_run
    /\ Len(result) = 2 /\ started = <<>> /\ Head(output) = DryRunPrefix

\* a occurs in b as a run of consecutive tokens
IsInfix(a, b) ==
    \E i \in 0..(Len(b) - Len(a)) : SubSeq(b, i + 1, i + Len(a)) = a

\* a command was handed to _run_command without dry_run and has ended
RanCommand == pc = "done" /\ commands # <<>> /\ ~dry_run
TheCommand == commands[Len(commands)]

\* C11: when the child of _run_command (of either manager) ends with an
\* exit code other than 0, cannot be found or cannot be launched or waited
\* for, the call (install, install_multiple, uninstall, uninstall_multiple,
\* ensure_packages) returns False with a non-empty diagnostic and raises
\* nothing; with capture_output and a non-zero exit code the diagnostic
\* gives the exit code and holds the captured standard output and standard
\* error (stripped of surrounding white space) whenever they hold any text.
C11_FailureIsFalseWithDiagnostic ==
    (RanCommand /\ exitcode # 0) =>
      /\ ret = "False"
      /\ output # <<>>
      /\ (TheCommand.capture_output /\ exitcode \in ExitCodes) =>
            /\ output[2] = CodeTok(exitcode)
            /\ strip(streams.out) # <<>> => IsInfix(strip(streams.out), output)
            /\ strip(streams.err) # <<>> => IsInfix(strip(streams.err), output)

\* C11 witness: pip exited with code 1 under the synchronous
\* ensure_packages, which captured text on both streams
C11_Witness ==
    /\ RanCommand /\ op = "ensure_packages" /\ exitcode = 1
    /\ TheCommand.capture_output
    /\ strip(streams.out) # <<>> /\ strip(streams.err) # <<>>
    /\ ret = "False"

\* what PackageManager.ensure_packages returns for the requirements, the
\* unmet list and the end of the child of the present call
SyncEnsureReturn ==
    IF EnsureTypeCheck(requirements) # "none"
    THEN EnsureTypeCheck(requirements)
    ELSE IF result = <<>> \/ dry_run \/ Success(exitcode) THEN "True"
    ELSE "False"

\* C15: for the same requirements, environment and child outcome, the
\* ensure_packages of both managers return what PackageManager's returns,
\* and hand a command to _run_command in the same cases (a valid, non-empty
\* input with a non-empty unmet list).
C15_SyncAsyncAgree ==
    (pc = "done" /\ op = "ensure_packages") =>
      /\ ret = SyncEnsureReturn
      /\ (commands # <<>>) <=>
            (EnsureTypeCheck(requirements) = "none" /\ result # <<>>)

\* C16: the reconciler of a manager reports as unmet what is unmet in the
\* environment of its target interpreter, the one its pip commands act on.
C16_QueriesReadTarget ==
    Reconciled =>
      result = _get_packages_to_process(env[target], requirements)

\* C19: the synchronous ensure_packages returns False and hands no command
\* to _run_command whenever the requirements are neither a list nor a
\* mapping, a string included.
C19_StringIsInvalidType ==
    (pc = "done" /\ op = "ensure_packages" /\ api = "sync"
       /\ requirements.kind \notin {"list", "dict"}) =>
      (ret = "False" /\ commands = <<>>)

\* the input strings whose package name (the string itself when it does
\* not parse) is not installed, in input order
NotInstalledOf(e, l) ==
    SelectSeq(l, LAMBDA x :
        Lookup(e, IF WellFormed(x) THEN NameOf(x) ELSE x) = NotFound)

\* everything of a command but its last n arguments is the subcommand, a
\* flag or the value of --index-url
OnlyOptionsBefore(command, n) ==
    \A i \in 1..(Len(command) - n) :
        \/ StartsWithDash(command[i])
        \/ (i = 1 /\ command[i] = <<"install">>)
        \/ (i > 1 /\ command[i - 1] = <<"--index-url">>)

\* C17: install_multiple_if_not_installed hands at most one command to
\* _run_command; when some input string names a package that is not
\* installed, the command is "install", without --upgrade and without
\* --force-reinstall, and its packages are exactly those strings, unchanged
\* and in input order (a string naming an installed package is never among
\* them, whatever its specifier); when nothing is missing there is no
\* command and the call returns True.
C17_PresenceOnly ==
    op = "install_multiple_if_not_installed" =>
      /\ Len(commands) <= 1 /\ Len(started) <= 1
      /\ (pc = "running" \/ (pc = "done" /\ (commands = <<>> \/ dry_run))) =>
            LET missing == NotInstalledOf(Seen, requirements.list)
            IN  IF missing = <<>>
                THEN commands = <<>> /\ ret = "True"
                ELSE /\ Len(commands) = 1
                     /\ Head(TheCommand.command) = <<"install">>
                     /\ <<"--upgrade">> \notin Range(TheCommand.command)
                     /\ <<"--force-reinstall">>
                           \notin Range(TheCommand.command)
                     /\ IsSuffix(missing, TheCommand.command)
                     /\ OnlyOptionsBefore(TheCommand.command, Len(missing))

\* C17 witness: "numpy>=2" is left out although the installed numpy is
\* older, and the missing "requests" alone goes to pip
C17_Witness ==
    /\ op = "install_multiple_if_not_installed" /\ pc = "running"
    /\ Len(requirements.list) = 2
    /\ Requirement(requirements.list[1]).specifier # <<>>
    /\ ~Met(Seen, NameOf(requirements.list[1]),
            Requirement(requirements.list[1]).specifier)
    /\ Lookup(Seen, NameOf(requirements.list[1])) # NotFound
    /\ result = <<requirements.list[2]>>

\* install_if_missing: the package asked for and the specifier that applies:
\* version_specifier, else the one written in the package string, else the
\* one the deprecated version / enforce_version stand for
ThePackage == requirements.str
ThePackageName ==
    IF WellFormed(ThePackage) THEN NameOf(ThePackage) ELSE ThePackage
TheSpecifier ==
    IF args.version_specifier # None THEN ClausesOf(args.version_specifier)
    ELSE IF WellFormed(ThePackage) /\ Requirement(ThePackage).specifier # <<>>
    THEN Requirement(ThePackage).specifier
    ELSE IF args.version # None
    THEN <<[op |-> IF args.enforce_version THEN "==" ELSE ">=",
            ver |-> VerOf(args.version[1])]>>
    ELSE <<>>

\* C18: install_if_missing (of either manager) hands no command to
\* _run_command and returns True when the package is installed, its version
\* satisfies the specifier that applies (or none applies) and always_update
\* is False; otherwise it hands over exactly one install command, and what
\* it returns is that command's success (exit code 0 of the one child).
C18_InstallOnlyWhenNeeded ==
    op = "install_if_missing" =>
      /\ Len(commands) <= 1 /\ Len(started) <= 1
      /\ (pc = "running" \/ (pc = "done" /\ (commands = <<>> \/ dry_run))) =>
            IF Met(Seen, ThePackageName, TheSpecifier) /\ ~args.always_update
            THEN commands = <<>> /\ ret = "True"
            ELSE /\ Len(commands) = 1
                 /\ Head(TheCommand.command) = <<"install">>
      /\ (pc = "done" /\ commands # <<>> /\ ~dry_run) =>
            /\ Len(started) = 1
            /\ ret \in {"True", "False"}
            /\ ret = "True" <=> exitcode = 0

\* C18 witness: the asynchronous manager installs although the package is
\* installed in a version the specifier accepts, because of always_update
C18_Witness ==
    /\ op = "install_if_missing" /\ api = "async" /\ pc = "running"
    /\ TheSpecifier # <<>>
    /\ Met(Seen, ThePackageName, TheSpecifier) /\ args.always_update
    /\ Len(started) = 1

\* C12: check_vulnerabilities (of either manager) raises nothing and
\* returns vulnerabilities_found = False only when the audit executable was
\* found on the path, was run and exited with code 0; every other outcome
\* (exit code 1, any other exit code, an exception while running it, a
\* missing executable) returns True, and with a missing executable no
\* process is started and the report is "pip-audit not found.".
C12_AuditIsConservative ==
    op = "check_vulnerabilities" =>
      /\ pc # "raised"
      /\ pc \in {"done", "exited"} =>
            /\ ret \in {"True", "False"}
            /\ ret = "False" <=>
                 ("pip-audit" \in fs /\ Len(started) = 1 /\ exitcode = 0)
            /\ "pip-audit" \notin fs =>
                 (started = <<>> /\ ret = "True" /\ output = NotFoundText)

\* C12 witness: the asynchronous manager answered True without a process,
\* the audit executable being absent
C12_Witness ==
    /\ op = "check_vulnerabilities" /\ api = "async" /\ pc = "done"
    /\ "pip-audit" \notin fs /\ ret = "True" /\ started = <<>>

\* one step of the constructor for a venv_path; with anyBase the steps of
\* constructors given a pip_command_base as well are included
VenvStep(anyBase) ==
    /\ (/\ pc = "new" /\ pc' # "new"
        /\ Truthy(ctor'.venv_path)
        /\ anyBase \/ ~Truthy(ctor'.pip_command_base)) =>
          IF Exists(fs, ctor'.venv_path[1])
          THEN /\ pc' = "idle" /\ started' = <<>>
               /\ target' = ctor'.venv_path[1]
          ELSE /\ pc' = "creating" /\ Len(started') = 1
               /\ SubSeq(started'[1].argv, 2, 4) =
                    << <<"-m">>, <<"venv">>, ctor'.venv_path >>
    /\ pc = "creating" =>
          /\ pc' \in {"idle", "raised"}
          /\ pc' = "idle" =>
                /\ exitcode' = 0
                /\ target' = ctor.venv_path[1]
                /\ Exists(fs', target')
          /\ (exitcode' # 0 \/ ~Exists(fs', ctor.venv_path[1])) =>
                (pc' = "raised" /\ ret' \in Raised)

Failed ==
    \/ ret \in Raised
    \/ cli.command \in {"forge", "equip", "banish"} /\ ret = "False"
    \/ cli.command = "scan" /\ ret = "True"

\* C14: a command of the command line ends with exit code 1 when the
\* operation it ran reported failure (forge: the creation raised or the
\* installation of the initial packages returned False; equip, banish: the
\* call returned False; scan: vulnerabilities found) and with 0 otherwise.
C14_ExitCodeReportsFailure ==
    pc = "exited" => sysexit = IF Failed THEN 1 ELSE 0

UvOps == {"install", "install_multiple", "uninstall"}

\* C20: a UvPackageManager constructed without an environment path has no
\* python_executable, and only a create_env that exited with code 0 gives
\* it one (that of the created environment); while it has none, install,
\* install_multiple and uninstall return False and start no uv process;
\* once it has one, the uv process they start (for install_multiple: when
\* the list is not empty) is "uv" pip install/uninstall with
\* --python="<environment>/bin/python" of the created environment.
C20_UvNeedsEnvironment ==
    [][/\ (pc = "new" /\ pc' = "idle" /\ ~Truthy(ctor'.venv_path)) =>
             target' = NoTarget
       /\ (pc # "new" /\ target' # target) =>
             /\ op = "create_env" /\ pc = "running"
             /\ exitcode' = 0 /\ ret' = "True"
             /\ target' = requirements.str[1] /\ Exists(fs', target')
       /\ (pc = "idle" /\ op' \in UvOps) =>
             IF target = NoTarget
             THEN pc' = "done" /\ ret' = "False" /\ started' = <<>>
             ELSE \/ /\ pc' = "running" /\ Len(started') = 1
                     /\ started'[1].shell
                     /\ ShellWords(started'[1].line)[1] = Quoted(<<"uv">>)
                     /\ ShellWords(started'[1].line)[2] = <<"pip">>
                     /\ ShellWords(started'[1].line)[4] = UvPython(target)
                  \/ /\ op' = "install_multiple" /\ pc' = "done"
                     /\ ret' = "True" /\ started' = <<>>]_vars

\* C20 witness: constructed without an environment path, create_env
\* succeeded and install has started uv for the created environment
C20_Witness ==
    /\ api = "uv" /\ op = "install" /\ pc = "running"
    /\ ~Truthy(ctor.venv_path) /\ target = "venv"
    /\ IsInfix(UvPython("venv"), started[1].line)

\* C21: when the uv venv command of create_env exits with code 0,
\* create_env returns True and the manager targets the new environment
\* (environment_path and python_executable); when the command fails,
\* create_env returns False and the manager targets what it targeted before.
C21_RetargetOnlyOnSuccess ==
    [][(op = "create_env" /\ pc = "running") =>
         IF exitcode' = 0
         THEN ret' = "True" /\ target' = requirements.str[1]
         ELSE ret' = "False" /\ target' = target]_vars

\* C21 witness: create_env failed for a manager without an environment,
\* which still has none
C21_Witness ==
    /\ api = "uv" /\ op = "create_env" /\ pc = "done"
    /\ ret = "False" /\ exitcode # 0 /\ target = NoTarget

\* C22: ensure_requirements (of either manager), given an existing
\* requirements file whose well-formed requirements are all met, starts no
\* package-manager process.
C22_MetFileRunsNothing ==
    (op = "ensure_requirements" /\ pc = "running") =>
       LET l == Parsed(requirements.list).requirements_list
       IN  \E i \in 1..Len(l) :
              WellFormed(l[i]) =>
                 ~Met(Seen, NameOf(l[i]), Requirement(l[i]).specifier)

\* C23: the audit that check_vulnerabilities starts names the interpreter
\* (environment) the manager targets, so that managers targeting different
\* environments start different audit commands for the same arguments.
C23_AuditNamesTarget ==
    (op = "check_vulnerabilities" /\ pc = "auditing") =>
       \E i \in 1..Len(started[1].line) : started[1].line[i] = target

\* C24: no query raises; for a package that is not installed is_installed
\* returns False, get_installed_version and get_current_package_version
\* return None and is_version_compatible returns False; and
\* is_version_compatible returns False for a specifier that does not parse.
C24_QueriesNeverRaise ==
    op \in QueryFns =>
      /\ pc # "raised"
      /\ ret \notin {"PackageNotFoundError", "ValueError"}
      /\ (pc = "done" /\ Lookup(Seen, requirements.str) = NotFound) =>
            ret = IF op \in {"is_installed", "is_version_compatible"}
                  THEN "False" ELSE "None"
      /\ (/\ pc = "done" /\ op = "is_version_compatible"
          /\ ~Requirement(<<"dummy">> \o args.version_specifier).ok) =>
            ret = "False"

\* C24 witness: is_version_compatible answered False for an installed
\* package and the specifier "!"
C24_Witness ==
    /\ op = "is_version_compatible" /\ pc = "done" /\ ret = "False"
    /\ Lookup(Seen, requirements.str) # NotFound
    /\ args.version_specifier = <<"!">>

C26_OneOutstandingChild ==
    api = "async" => Cardinality(Outstanding) <= 1

\* the effective specifier of the running install_if_missing, as text
TheEffective ==
    IF api = "sync"
    THEN WithDeprecated(EffectiveSpecifier(ThePackage, args.version_specifier),
                        args.version, args.enforce_version)
    ELSE EffectiveSpecifier(ThePackage, args.version_specifier)
HasFlag(flag) == \E i \in 1..Len(TheCommand.command) :
                    TheCommand.command[i] = flag

\* C27: for the same package string, version_specifier, always_update and
\* environment, the asynchronous install_if_missing installs exactly when
\* the synchronous one does, and then hands over the same install target
\* with --upgrade and --force-reinstall exactly when the synchronous one
\* passes them.
C27_AsyncMirrorsSync ==
    (op = "install_if_missing" /\ api = "async") =>
      /\ (pc = "done" /\ commands = <<>>) =>
            ~NeedsInstall(Seen, ThePackageName, TheEffective,
                          args.always_update)
      /\ pc = "running" =>
            LET f == InstallFlags("sync", Seen, ThePackageName, TheEffective,
                                  args.always_update)
            IN  /\ NeedsInstall(Seen, ThePackageName, TheEffective,
                                args.always_update)
                /\ TheCommand.command[Len(TheCommand.command)] =
                      InstallTarget(ThePackage, TheEffective)
                /\ HasFlag(<<"--upgrade">>) <=> f.upgrade
                /\ HasFlag(<<"--force-reinstall">>) <=> f.force

\* C28: the synchronous install_if_missing passes --force-reinstall only
\* when the package is installed and its version violates the effective
\* specifier: not when the package is absent, and not when the version
\* satisfies the specifier and always_update alone asks for the install.
C28_ForceOnlyOnViolation ==
    (/\ op = "install_if_missing" /\ api = "sync" /\ pc = "running"
     /\ WellFormed(ThePackage)
     /\ HasFlag(<<"--force-reinstall">>)) =>
       /\ Lookup(Seen, ThePackageName) # NotFound
       /\ ~Met(Seen, ThePackageName, TheSpecifier)

\* C29: the install target that install_if_missing (of either manager)
\* hands over carries the effective specifier by which the installed
\* version was judged, also when the package string has a specifier of its
\* own and another version_specifier is passed.
C29_TargetCarriesEffective ==
    (op = "install_if_missing" /\ commands # <<>> /\ WellFormed(ThePackage)) =>
       Requirement(TheCommand.command[Len(TheCommand.command)]).specifier
          = TheSpecifier

\* C30: the commands equip, banish, scout and scan, for any --env path
\* (also one that does not exist, also equip --dry-run), start no process
\* that creates a virtual environment and create none.
C30_OnlyForgeCreates ==
    [][cli'.command \in {"equip", "banish", "scout", "scan"} =>
          (pc' # "creating" /\ fs' = fs)]_vars

====
